---- MODULE Spec2Model ----
(***************************************************************************)
(* Model of the schema auditor's analysis engine: the constraint contract, *)
(* the check functions (checkFkIndexes, check2nf, checkSoftDelete), the    *)
(* invariants validator and the audit entry point.                         *)
(*                                                                         *)
(* Every check is a pure function of its arguments.  Each specification    *)
(* below draws the arguments of one function from a bounded universe and   *)
(* has one action per call, which stores the returned finding list.        *)
(*                                                                         *)
(* Representation:                                                         *)
(*   - a TypeScript array is a sequence;                                   *)
(*   - a nullable value (T | null, T | undefined) is a sequence of length  *)
(*     at most one: Null is <<>>, Some(v) is <<v>>;                        *)
(*   - template strings are built with \o and Join, as the code builds     *)
(*     them.                                                               *)
(***************************************************************************)
EXTENDS Integers, Sequences, FiniteSets, TLC

VARIABLES
    contract,    \* ConstraintContract.models: the models handed to a check
    fds,         \* the FunctionalDependency[] handed to check2nf
    invariants,  \* the InvariantsFile, as its Object.entries() sequence
    options,     \* AuditOptions of the audit call
    pc,          \* "ready", or the name of the function that has returned
    findings,    \* the Finding[] that function returned
    metadata,    \* AuditResult.metadata once audit has returned, else Null
    invariantsFile,  \* the text of the file at options.invariantsPath
    sql,         \* the statements of the SQL text handed to parseSqlString
    calls        \* the checks run one after another on the same arguments, each
                 \* with the value it returned

vars ==
    <<contract, fds, invariants, options, pc, findings, metadata, invariantsFile, sql,
      calls>>

(***************************************************************************)
(* Bounds of the explored universes.                                       *)
(***************************************************************************)
MaxFks == 2      \* foreign keys per model
MaxIdx == 2      \* unique constraints plus plain indexes per model (FK coverage)
MaxUq  == 2      \* unique constraints per model (soft-delete check)
MaxFds == 2      \* FDs in an FD list / declared in an invariants file
MaxDefs == 3     \* definitions in the CREATE TABLE built from the definition pool
MaxStmts == 3    \* statements in a SQL text
MaxActions == 2  \* ON DELETE / ON UPDATE clauses of a foreign key
MaxCalls == 3    \* checks run one after another on the same arguments

(***************************************************************************)
(* Generic helpers standing for the JavaScript built-ins the code uses.    *)
(***************************************************************************)
Null == <<>>
Some(v) == <<v>>

\* Array.prototype.includes
Includes(s, e) == \E i \in 1..Len(s) : s[i] = e

\* Array.prototype.join
RECURSIVE Join(_, _)
Join(s, sep) ==
    IF s = <<>> THEN ""
    ELSE IF Len(s) = 1 THEN s[1]
    ELSE s[1] \o sep \o Join(Tail(s), sep)

\* Array.prototype.filter
RECURSIVE Filter(_, _)
Filter(Keep(_), s) ==
    IF s = <<>> THEN <<>>
    ELSE IF Keep(Head(s)) THEN <<Head(s)>> \o Filter(Keep, Tail(s))
    ELSE Filter(Keep, Tail(s))

\* for (const e of s) findings.push(...): the findings of every element, in order
RECURSIVE FlatMap(_, _)
FlatMap(Op(_), s) ==
    IF s = <<>> THEN <<>> ELSE Op(Head(s)) \o FlatMap(Op, Tail(s))

\* Sequences over S of length lo..hi
SeqsBetween(S, lo, hi) == UNION {[1..k -> S] : k \in lo..hi}

\* Field lists: non-empty sequences over S without repetition
FieldLists(S) ==
    {s \in SeqsBetween(S, 1, Cardinality(S)) :
        \A i, j \in 1..Len(s) : i # j => s[i] # s[j]}

\* Number of positions of s whose element satisfies P
Count(P(_), s) == Cardinality({i \in 1..Len(s) : P(s[i])})

(***************************************************************************)
(* Contract values.                                                        *)
(***************************************************************************)
Field(n, t) == [name |-> n, type |-> t]

ForeignKey(fs, ref, refFs) ==
    [fields |-> fs, referencedModel |-> ref, referencedFields |-> refFs]

Model(n, fs, pk, uqs, idxs, fks) ==
    [name |-> n, fields |-> fs, primaryKey |-> pk,
     uniqueConstraints |-> uqs, indexes |-> idxs, foreignKeys |-> fks]

Finding(r, sev, nf, m, f, msg, fx) ==
    [rule |-> r, severity |-> sev, normalForm |-> nf, model |-> m,
     field |-> f, message |-> msg, fix |-> fx]

\* What a call leaves in place of its findings when it throws err
Raised(err) == [raised |-> err]

(***************************************************************************)
(* checkFkIndexes                                                          *)
(***************************************************************************)
\* Mutant: the prefix test without the length guard and without positions.
isLeftmostPrefixAnywhere(fkFields, constraintFields) ==
    \A i \in 1..Len(fkFields) : Includes(constraintFields, fkFields[i])

isLeftmostPrefix(fkFields, constraintFields) ==
    IF Len(fkFields) > Len(constraintFields) THEN FALSE
    ELSE \A i \in 1..Len(fkFields) : constraintFields[i] = fkFields[i]

isFkCoveredByIndex(fkFields, pkFields, uniqueConstraints, indexes) ==
    LET allFieldArrays == pkFields \o uniqueConstraints \o indexes
    IN  \E k \in 1..Len(allFieldArrays) :
            isLeftmostPrefix(fkFields, allFieldArrays[k])

FkMissingIndexFinding(model, fk) ==
    Finding("FK_MISSING_INDEX", "info", "SCHEMA", model.name,
        IF Len(fk.fields) = 1 THEN Some(fk.fields[1]) ELSE Null,
        "Foreign key (" \o Join(fk.fields, ", ") \o ") on \"" \o model.name
            \o "\" referencing \"" \o fk.referencedModel
            \o "\" is not covered by any index, PK, or unique constraint prefix. Queries joining on this FK may be slow.",
        Some("Add @@index([" \o Join(fk.fields, ", ") \o "]) to '" \o model.name
            \o "' for faster joins and cascade operations."))

checkFkIndexesModel(model) ==
    LET OfFk(fk) ==
            IF ~isFkCoveredByIndex(fk.fields, model.primaryKey,
                                   model.uniqueConstraints, model.indexes)
            THEN <<FkMissingIndexFinding(model, fk)>>
            ELSE <<>>
    IN  FlatMap(OfFk, model.foreignKeys)

checkFkIndexes(c) == FlatMap(checkFkIndexesModel, c)

(***************************************************************************)
(* Universe of checkFkIndexes: one model "Post" whose primary key, unique  *)
(* constraints, indexes and foreign keys range over the field lists of     *)
(* FkFieldNames; and the empty contract.                                   *)
(***************************************************************************)
FkFieldNames == {"authorId", "orgId"}

PostFields == <<Field("authorId", "Int"), Field("id", "Int"), Field("orgId", "Int")>>

FkConstraintPairs ==
    {p \in SeqsBetween(FieldLists(FkFieldNames), 0, MaxIdx)
           \X SeqsBetween(FieldLists(FkFieldNames), 0, MaxIdx) :
        Len(p[1]) + Len(p[2]) <= MaxIdx}

FkForeignKeys ==
    {ForeignKey(fs, "User", SubSeq(<<"id", "tenantId">>, 1, Len(fs))) :
        fs \in FieldLists(FkFieldNames)}

FkModels ==
    {Model("Post", PostFields, pk, p[1], p[2], fks) :
        pk \in {Null, Some(<<"id">>)} \cup {Some(l) : l \in FieldLists(FkFieldNames)},
        p \in FkConstraintPairs,
        fks \in SeqsBetween(FkForeignKeys, 0, MaxFks)}

FkContracts == {<<>>} \cup {<<m>> : m \in FkModels}

AuditOptions(path, given, omit) ==
    [schemaPath |-> path, invariantsGiven |-> given, noTimestamp |-> omit]

\* The options of a state in which audit is not the function called
NoOptions == AuditOptions("schema.prisma", FALSE, TRUE)

\* The text of a file, by what JSON.parse makes of it: a document, or
\* nothing when the text is not JSON
JsonText(document) == [json |-> Some(document)]

MalformedText == [json |-> Null]

\* No file is read
NoFile == JsonText(<<>>)

InitFk ==
    /\ contract \in FkContracts
    /\ fds = <<>>
    /\ invariants = <<>>
    /\ options = NoOptions
    /\ invariantsFile = NoFile
    /\ sql = <<>>
    /\ pc = "ready"
    /\ findings = <<>>
    /\ metadata = Null
    /\ calls = <<>>

CallCheckFkIndexes ==
    /\ pc = "ready"
    /\ pc' = "checkFkIndexes"
    /\ findings' = checkFkIndexes(contract)
    /\ UNCHANGED <<contract, fds, invariants, options, metadata, invariantsFile, sql, calls>>

NextFk == CallCheckFkIndexes

SpecFk == InitFk /\ [][NextFk]_vars

(***************************************************************************)
(* C1                                                                      *)
(***************************************************************************)
\* The claim's own notion of a leftmost prefix: fk equals the first N fields.
IsPrefixOf(fk, c) == Len(fk) <= Len(c) /\ SubSeq(c, 1, Len(fk)) = fk

CoveringLists(m) == m.primaryKey \o m.uniqueConstraints \o m.indexes

FkUncovered(m, fk) ==
    \A k \in 1..Len(CoveringLists(m)) : ~IsPrefixOf(fk.fields, CoveringLists(m)[k])

\* C1: checkFkIndexes emits exactly one FK_MISSING_INDEX finding per foreign
\* key whose field list is not a leftmost prefix of the owning model's primary
\* key, of any unique constraint or of any plain index, and none for a foreign
\* key that is such a prefix: per model the findings number the uncovered
\* foreign keys, per single-field foreign key the findings naming its field
\* number the uncovered foreign keys on that field, and nothing else is
\* returned.
C1_FkMissingIndexIffNotPrefix ==
    pc = "checkFkIndexes" =>
        /\ \A i \in 1..Len(findings) :
              /\ findings[i].rule = "FK_MISSING_INDEX"
              /\ \E k \in 1..Len(contract) : contract[k].name = findings[i].model
        /\ \A k \in 1..Len(contract) :
              LET m == contract[k]
                  Uncov(fk) == FkUncovered(m, fk)
                  OfModel(f) == f.model = m.name
              IN  /\ Count(OfModel, findings) = Count(Uncov, m.foreignKeys)
                  /\ \A j \in 1..Len(m.foreignKeys) :
                        LET fk == m.foreignKeys[j]
                            Same(g) == g.fields = fk.fields /\ FkUncovered(m, g)
                            Names(f) ==
                                /\ f.model = m.name
                                /\ f.field = (IF Len(fk.fields) = 1
                                              THEN Some(fk.fields[1]) ELSE Null)
                        IN  Len(fk.fields) = 1 =>
                                Count(Names, findings) = Count(Same, m.foreignKeys)

\* Witness of C1: a model with a covered foreign key (a proper prefix of a
\* longer constraint) and an uncovered one, after the check has run.
C1_Witness ==
    /\ pc = "checkFkIndexes"
    /\ Len(contract) = 1
    /\ Len(findings) = 1
    /\ \E j \in 1..Len(contract[1].foreignKeys) :
          /\ ~FkUncovered(contract[1], contract[1].foreignKeys[j])
          /\ \E k \in 1..Len(CoveringLists(contract[1])) :
                Len(CoveringLists(contract[1])[k]) > Len(contract[1].foreignKeys[j].fields)

(***************************************************************************)
(* extractCandidateKeys (computeKeys.ts): one key per declared primary key *)
(* and one per unique constraint, each with its ordered field list.        *)
(***************************************************************************)
CandidateKey(m, fs, src) == [model |-> m, fields |-> fs, source |-> src]

extractCandidateKeys(c, modelName) ==
    LET Named(m) == m.name = modelName
        found == Filter(Named, c)
        PkKey(pk) == <<CandidateKey(modelName, pk, "pk")>>
        UqKey(uq) == <<CandidateKey(modelName, uq, "unique")>>
    IN  IF found = <<>> THEN <<>>
        ELSE FlatMap(PkKey, Head(found).primaryKey)
                \o FlatMap(UqKey, Head(found).uniqueConstraints)

(***************************************************************************)
(* check2nf                                                                *)
(***************************************************************************)
FunctionalDependency(m, det, dep, src) ==
    [model |-> m, determinant |-> det, dependent |-> dep, source |-> src]

\* Mutant: any composite key, whatever its source.
findCompositeKeyAnySource(keys) ==
    LET Composite(k) == Len(k.fields) > 1
        found == Filter(Composite, keys)
    IN  IF found = <<>> THEN Null ELSE Some(Head(found))

\* keys.find((k) => k.source === 'pk' && k.fields.length > 1)
findCompositePk(keys) ==
    LET CompositePk(k) == k.source = "pk" /\ Len(k.fields) > 1
        found == Filter(CompositePk, keys)
    IN  IF found = <<>> THEN Null ELSE Some(Head(found))

PartialDependencyFinding(model, fkFd) ==
    LET subset == Join(fkFd.determinant, ", ")
    IN  Finding("NF2_PARTIAL_DEPENDENCY_SUSPECTED", "warning", "2NF", model.name, Null,
            "Composite-key model \"" \o model.name \o "\" has FK fields (" \o subset
                \o ") that are a proper subset of the primary key. Non-key attributes may depend on this subset rather than the full key, which would violate 2NF.",
            Some("Extract fields that depend on (" \o subset \o ") into their own model."))

\* Mutant: every FD on the model is consulted, whatever its source.
checkPartialDependencyAnySource(model, pkFields, fdList) ==
    LET hasNonKeyFields ==
            \E i \in 1..Len(model.fields) : ~Includes(pkFields, model.fields[i].name)
        IsModelFd(fd) == fd.model = model.name
        modelFds == Filter(IsModelFd, fdList)
        OfFd(fkFd) ==
            LET isProperSubset ==
                    /\ Len(fkFd.determinant) < Len(pkFields)
                    /\ \A i \in 1..Len(fkFd.determinant) :
                          Includes(pkFields, fkFd.determinant[i])
            IN  IF isProperSubset THEN <<PartialDependencyFinding(model, fkFd)>> ELSE <<>>
    IN  IF ~hasNonKeyFields THEN <<>> ELSE FlatMap(OfFd, modelFds)

checkPartialDependency(model, pkFields, fdList) ==
    LET hasNonKeyFields ==
            \E i \in 1..Len(model.fields) : ~Includes(pkFields, model.fields[i].name)
        IsFkFd(fd) == fd.model = model.name /\ fd.source = "fk"
        fkFds == Filter(IsFkFd, fdList)
        OfFd(fkFd) ==
            LET isProperSubset ==
                    /\ Len(fkFd.determinant) < Len(pkFields)
                    /\ \A i \in 1..Len(fkFd.determinant) :
                          Includes(pkFields, fkFd.determinant[i])
            IN  IF isProperSubset THEN <<PartialDependencyFinding(model, fkFd)>> ELSE <<>>
    IN  IF ~hasNonKeyFields THEN <<>> ELSE FlatMap(OfFd, fkFds)

\* Mutant: the join-table finding names its first extra attribute as field.
JoinTableFindingNamingField(model, extraFields) ==
    Finding("NF2_JOIN_TABLE_DUPLICATED_ATTR_SUSPECTED", "warning", "2NF", model.name,
        Some(extraFields[1]),
        "Join table \"" \o model.name \o "\" has extra attributes ["
            \o Join(extraFields, ", ")
            \o "] beyond its composite key. Consider whether this should be a first-class entity.",
        Some("Add a dedicated @id to '" \o model.name
            \o "' and treat it as a first-class entity."))

JoinTableFinding(model, extraFields) ==
    Finding("NF2_JOIN_TABLE_DUPLICATED_ATTR_SUSPECTED", "warning", "2NF", model.name, Null,
        "Join table \"" \o model.name \o "\" has extra attributes ["
            \o Join(extraFields, ", ")
            \o "] beyond its composite key. Consider whether this should be a first-class entity.",
        Some("Add a dedicated @id to '" \o model.name
            \o "' and treat it as a first-class entity."))

fieldNamesOf(model) == [i \in 1..Len(model.fields) |-> model.fields[i].name]

\* Mutant: the extra fields are every non-key field, foreign-key fields included.
extraFieldsIgnoringFks(model, pkFields, fkFieldSets) ==
    LET Extra(name) == ~Includes(pkFields, name)
    IN  Filter(Extra, fieldNamesOf(model))

extraFieldsOf(model, pkFields, fkFieldSets) ==
    LET Extra(name) == ~Includes(pkFields, name) /\ ~Includes(fkFieldSets, name)
    IN  Filter(Extra, fieldNamesOf(model))

checkJoinTableDuplicatedAttr(model, pkFields) ==
    LET FieldsOfFk(fk) == fk.fields
        fkFieldSets == FlatMap(FieldsOfFk, model.foreignKeys)
        allPkFieldsAreFk ==
            \A i \in 1..Len(pkFields) : Includes(fkFieldSets, pkFields[i])
        extraFields == extraFieldsOf(model, pkFields, fkFieldSets)
    IN  IF ~allPkFieldsAreFk THEN <<>>
        ELSE IF Len(extraFields) > 0 THEN <<JoinTableFinding(model, extraFields)>>
        ELSE <<>>

\* Mutant: the join-table check runs before the partial-dependency check.
check2nfJoinTableFirst(c, fdList) ==
    LET OfModel(model) ==
            LET keys == extractCandidateKeys(c, model.name)
                compositePk == findCompositePk(keys)
            IN  IF compositePk # Null
                THEN checkJoinTableDuplicatedAttr(model, compositePk[1].fields)
                        \o checkPartialDependency(model, compositePk[1].fields, fdList)
                ELSE <<>>
    IN  FlatMap(OfModel, c)

check2nf(c, fdList) ==
    LET OfModel(model) ==
            LET keys == extractCandidateKeys(c, model.name)
                compositePk == findCompositePk(keys)
            IN  IF compositePk # Null
                THEN checkPartialDependency(model, compositePk[1].fields, fdList)
                        \o checkJoinTableDuplicatedAttr(model, compositePk[1].fields)
                ELSE <<>>
    IN  FlatMap(OfModel, c)

(***************************************************************************)
(* Universe of check2nf: one model "Enrollment" (with or without the       *)
(* non-key field grade; primary key absent, single or composite), its      *)
(* foreign keys, and an FD list handed to the check independently of them. *)
(***************************************************************************)
EnrollmentFieldLists ==
    {<<Field("courseId", "Int"), Field("studentId", "Int")>>,
     <<Field("courseId", "Int"), Field("grade", "String"), Field("studentId", "Int")>>}

EnrollmentPks == {Null, Some(<<"studentId">>), Some(<<"studentId", "courseId">>)}

EnrollmentUniques == {<<>>, <<<<"courseId", "studentId">>>>}

EnrollmentFks(fs) ==
    {ForeignKey(<<"studentId">>, "Student", <<"id">>),
     ForeignKey(<<"courseId">>, "Course", <<"id">>),
     ForeignKey(<<"studentId", "courseId">>, "Seat", <<"studentId", "courseId">>)}
        \cup (IF Len(fs) = 3 THEN {ForeignKey(<<"grade">>, "Grade", <<"code">>)} ELSE {})

EnrollmentModels ==
    UNION {{Model("Enrollment", fs, pk, uqs, <<>>, fks) :
                pk \in EnrollmentPks, uqs \in EnrollmentUniques,
                fks \in SeqsBetween(EnrollmentFks(fs), 0, MaxFks)} :
           fs \in EnrollmentFieldLists}

Nf2Fds ==
    {FunctionalDependency("Enrollment", det, <<"Student.id">>, "fk") :
        det \in {<<>>, <<"studentId">>, <<"courseId", "studentId">>, <<"grade">>}}
    \cup {FunctionalDependency("Enrollment", <<"studentId">>, <<"grade">>, "invariant"),
          FunctionalDependency("Course", <<"studentId">>, <<"Student.id">>, "fk")}

InitNf2 ==
    /\ contract \in {<<m>> : m \in EnrollmentModels}
    /\ fds \in SeqsBetween(Nf2Fds, 0, MaxFds)
    /\ invariants = <<>>
    /\ options = NoOptions
    /\ invariantsFile = NoFile
    /\ sql = <<>>
    /\ pc = "ready"
    /\ findings = <<>>
    /\ metadata = Null
    /\ calls = <<>>

CallCheck2nf ==
    /\ pc = "ready"
    /\ pc' = "check2nf"
    /\ findings' = check2nf(contract, fds)
    /\ UNCHANGED <<contract, fds, invariants, options, metadata, invariantsFile, sql, calls>>

NextNf2 == CallCheck2nf

SpecNf2 == InitNf2 /\ [][NextNf2]_vars

(***************************************************************************)
(* C2, C3, C4                                                              *)
(***************************************************************************)
SetOf(s) == {s[i] : i \in 1..Len(s)}

HasCompositePk(m) == m.primaryKey # Null /\ Len(m.primaryKey[1]) > 1

PkSet(m) == IF m.primaryKey = Null THEN {} ELSE SetOf(m.primaryKey[1])

HasFieldOutsidePk(m) == \E n \in SetOf(fieldNamesOf(m)) : n \notin PkSet(m)

IsPartial(f) == f.rule = "NF2_PARTIAL_DEPENDENCY_SUSPECTED"

IsJoinTable(f) == f.rule = "NF2_JOIN_TABLE_DUPLICATED_ATTR_SUSPECTED"

ClaimedExtraFields(m) ==
    LET fkFields == UNION {SetOf(m.foreignKeys[j].fields) : j \in 1..Len(m.foreignKeys)}
        Extra(n) == n \notin PkSet(m) /\ n \notin fkFields
    IN  Filter(Extra, fieldNamesOf(m))

AllPkFieldsAreFkFields(m) ==
    \A n \in PkSet(m) :
        \E j \in 1..Len(m.foreignKeys) : n \in SetOf(m.foreignKeys[j].fields)

\* C3: for a composite-key model, check2nf emits exactly one
\* NF2_JOIN_TABLE_DUPLICATED_ATTR_SUSPECTED finding, whose message lists
\* exactly the fields that are neither key nor foreign-key fields, when every
\* key field is a foreign-key field and such an extra field exists; otherwise
\* it emits no such finding.
C3_JoinTableFindingIffExtraFields ==
    pc = "check2nf" =>
        \A k \in 1..Len(contract) :
            LET m == contract[k]
                OfModel(f) == IsJoinTable(f) /\ f.model = m.name
                Lists(f) ==
                    /\ OfModel(f)
                    /\ f.message = "Join table \"" \o m.name \o "\" has extra attributes ["
                          \o Join(ClaimedExtraFields(m), ", ")
                          \o "] beyond its composite key. Consider whether this should be a first-class entity."
            IN  HasCompositePk(m) =>
                    IF AllPkFieldsAreFkFields(m) /\ ClaimedExtraFields(m) # <<>>
                    THEN Count(OfModel, findings) = 1 /\ Count(Lists, findings) = 1
                    ELSE Count(OfModel, findings) = 0

\* Witness of C3: a join table whose key fields are all foreign-key fields,
\* with the extra field grade, reported once.
C3_Witness ==
    /\ pc = "check2nf"
    /\ HasCompositePk(contract[1])
    /\ AllPkFieldsAreFkFields(contract[1])
    /\ ClaimedExtraFields(contract[1]) = <<"grade">>
    /\ Count(IsJoinTable, findings) = 1

\* C4: check2nf emits no finding for a model whose primary key is absent or
\* has a single field, whatever its foreign keys, unique constraints, fields
\* and FDs.
C4_NoFindingWithoutCompositePk ==
    pc = "check2nf" =>
        \A k \in 1..Len(contract) :
            ~HasCompositePk(contract[k]) =>
                \A i \in 1..Len(findings) : findings[i].model # contract[k].name

\* Witness of C4: a single-field primary key next to a composite unique
\* constraint, foreign keys on the key fields and an fk-sourced FD on a key
\* field; check2nf has returned.
C4_Witness ==
    /\ pc = "check2nf"
    /\ contract[1].primaryKey = Some(<<"studentId">>)
    /\ contract[1].uniqueConstraints # <<>>
    /\ Len(contract[1].foreignKeys) = 2
    /\ Len(contract[1].fields) = 3
    /\ \E i \in 1..Len(fds) :
          fds[i].source = "fk" /\ fds[i].determinant = <<"studentId">>
                /\ fds[i].model = "Enrollment"

(***************************************************************************)
(* checkSoftDelete                                                         *)
(***************************************************************************)
\* Mutant: a soft-delete field by name alone, whatever its type.
isSoftDeleteFieldByName(f) == f.name = "deleted_at" \/ f.name = "deletedAt"

isSoftDeleteField(f) ==
    (f.name = "deleted_at" \/ f.name = "deletedAt") /\ f.type = "DateTime"

\* model.fields.find(...): the first match, or undefined
findSoftDeleteField(model) ==
    LET found == Filter(isSoftDeleteField, model.fields)
    IN  IF found = <<>> THEN Null ELSE Some(Head(found))

SoftDeleteFinding(model, softDeleteField, uq) ==
    LET existingFields == Join(uq, ", ")
    IN  Finding("SOFTDELETE_MISSING_IN_UNIQUE", "warning", "SCHEMA", model.name,
            Some(softDeleteField.name),
            "Unique constraint (" \o existingFields \o ") on \"" \o model.name
                \o "\" does not include soft-delete field \"" \o softDeleteField.name
                \o "\". Deleted rows may conflict with active records.",
            Some("Add '" \o softDeleteField.name
                \o "' to this unique constraint: @@unique([" \o existingFields \o ", "
                \o softDeleteField.name \o "])"))

\* Mutant: the loop body without the "softDeleteField === undefined" guard;
\* reading .name of undefined throws a TypeError.
checkSoftDeleteModelUnguarded(model) ==
    LET softDeleteField == findSoftDeleteField(model)
        OfUnique(uq) ==
            IF softDeleteField = Null THEN <<Raised("TypeError")>>
            ELSE IF ~Includes(uq, softDeleteField[1].name)
            THEN <<SoftDeleteFinding(model, softDeleteField[1], uq)>>
            ELSE <<>>
    IN  FlatMap(OfUnique, model.uniqueConstraints)

checkSoftDeleteModel(model) ==
    LET softDeleteField == findSoftDeleteField(model)
        OfUnique(uq) ==
            IF ~Includes(uq, softDeleteField[1].name)
            THEN <<SoftDeleteFinding(model, softDeleteField[1], uq)>>
            ELSE <<>>
    IN  IF softDeleteField = Null THEN <<>>
        ELSE FlatMap(OfUnique, model.uniqueConstraints)

checkSoftDelete(c) == FlatMap(checkSoftDeleteModel, c)

(***************************************************************************)
(* Universe of checkSoftDelete: one model "User" whose fields are any      *)
(* ordering of distinct-named fields among email, deleted_at, deletedAt    *)
(* (DateTime or String) and deleted_by, with unique constraints over the   *)
(* fields it has.                                                          *)
(***************************************************************************)
SdFields ==
    {Field("email", "String"), Field("deleted_by", "String")}
        \cup {Field(n, t) : n \in {"deleted_at", "deletedAt"}, t \in {"DateTime", "String"}}

SdFieldLists ==
    {s \in SeqsBetween(SdFields, 1, 4) :
        \A i, j \in 1..Len(s) : i # j => s[i].name # s[j].name}

SdUniqueLists ==
    {<<"email">>, <<"email", "deleted_at">>, <<"email", "deletedAt">>, <<"deleted_at">>}

SdModels ==
    UNION {{Model("User", fs, Null, uqs, <<>>, <<>>) :
                uqs \in SeqsBetween(
                    {u \in SdUniqueLists :
                        \A i \in 1..Len(u) : \E j \in 1..Len(fs) : fs[j].name = u[i]},
                    0, MaxUq)} :
           fs \in SdFieldLists}

InitSd ==
    /\ contract \in {<<m>> : m \in SdModels}
    /\ fds = <<>>
    /\ invariants = <<>>
    /\ options = NoOptions
    /\ invariantsFile = NoFile
    /\ sql = <<>>
    /\ pc = "ready"
    /\ findings = <<>>
    /\ metadata = Null
    /\ calls = <<>>

CallCheckSoftDelete ==
    /\ pc = "ready"
    /\ pc' = "checkSoftDelete"
    /\ findings' = checkSoftDelete(contract)
    /\ UNCHANGED <<contract, fds, invariants, options, metadata, invariantsFile, sql, calls>>

NextSd == CallCheckSoftDelete

SpecSd == InitSd /\ [][NextSd]_vars

(***************************************************************************)
(* C5, C6                                                                  *)
(***************************************************************************)
\* Positions of the DateTime-typed fields named deleted_at or deletedAt
SoftDeletePositions(m) ==
    {i \in 1..Len(m.fields) :
        /\ m.fields[i].name \in {"deleted_at", "deletedAt"}
        /\ m.fields[i].type = "DateTime"}

HasField(m, n) == \E i \in 1..Len(m.fields) : m.fields[i].name = n

\* C5: a model with a DateTime-typed field named deleted_at or deletedAt (the
\* first one in field order, when it has both) gets exactly one
\* SOFTDELETE_MISSING_IN_UNIQUE finding per unique constraint that does not
\* contain that field and none for one that contains it; a model without such
\* a field gets no finding.
C5_MissingInUniquePerConstraint ==
    pc = "checkSoftDelete" =>
        \A k \in 1..Len(contract) :
            LET m == contract[k]
                OfModel(f) == f.model = m.name
                Reported(f) ==
                    f.model = m.name /\ f.rule = "SOFTDELETE_MISSING_IN_UNIQUE"
            IN  IF SoftDeletePositions(m) = {}
                THEN Count(OfModel, findings) = 0
                ELSE LET p == CHOOSE i \in SoftDeletePositions(m) :
                                  \A j \in SoftDeletePositions(m) : i <= j
                         sd == m.fields[p].name
                         Lacks(uq) == sd \notin SetOf(uq)
                         Names(f) == Reported(f) /\ f.field = Some(sd)
                     IN  /\ Count(Reported, findings) = Count(Lacks, m.uniqueConstraints)
                         /\ Count(Names, findings) = Count(Lacks, m.uniqueConstraints)

\* Witness of C5: a unique constraint without the soft-delete field and one
\* with it on the same model; one finding.
C5_Witness ==
    /\ pc = "checkSoftDelete"
    /\ SoftDeletePositions(contract[1]) # {}
    /\ contract[1].uniqueConstraints = <<<<"email">>, <<"email", "deleted_at">>>>
    /\ Len(findings) = 1

IsAtWithoutBy(f) == f.rule = "SOFTDELETE_AT_WITHOUT_BY"

IsByWithoutAt(f) == f.rule = "SOFTDELETE_BY_WITHOUT_AT"

\* C6 as claimed: the soft-delete check reports one SOFTDELETE_AT_WITHOUT_BY
\* finding for every model with a deleted_at field and no deleted_by field,
\* one SOFTDELETE_BY_WITHOUT_AT finding for every model with deleted_by and no
\* deleted_at, and no pairing finding for a model with both or neither.
C6_PairingFindings ==
    pc = "checkSoftDelete" =>
        \A k \in 1..Len(contract) :
            LET m == contract[k]
                AtOfModel(f) == IsAtWithoutBy(f) /\ f.model = m.name
                ByOfModel(f) == IsByWithoutAt(f) /\ f.model = m.name
            IN  /\ Count(AtOfModel, findings) =
                      (IF HasField(m, "deleted_at") /\ ~HasField(m, "deleted_by")
                       THEN 1 ELSE 0)
                /\ Count(ByOfModel, findings) =
                      (IF HasField(m, "deleted_by") /\ ~HasField(m, "deleted_at")
                       THEN 1 ELSE 0)

\* The case C6 fails on: deleted_at without deleted_by, after the check.
C6_AtWithoutByCase ==
    /\ pc = "checkSoftDelete"
    /\ HasField(contract[1], "deleted_at")
    /\ ~HasField(contract[1], "deleted_by")

(***************************************************************************)
(* Invariants file (core/invariants/parse.ts)                              *)
(*                                                                         *)
(* An InvariantsFile is modelled as the sequence Object.entries() yields:  *)
(* entries with distinct model names, each with an optional list of        *)
(* declared FDs.                                                           *)
(***************************************************************************)
InvariantFd(det, dep) == [determinant |-> det, dependent |-> dep]

InvariantsEntry(n, declared) == [modelName |-> n, functionalDependencies |-> declared]

\* new Set([...]): the distinct elements, in order of first occurrence
RECURSIVE Distinct(_)
Distinct(s) ==
    IF s = <<>> THEN <<>>
    ELSE LET init == Distinct(SubSeq(s, 1, Len(s) - 1))
         IN  IF Includes(init, s[Len(s)]) THEN init ELSE Append(init, s[Len(s)])

\* new Map(contract.models.map((m) => [m.name, m])).get(modelName)
modelMapGet(c, modelName) ==
    LET Named(m) == m.name = modelName
        found == Filter(Named, c)
    IN  IF found = <<>> THEN Null ELSE Some(found[Len(found)])

UnknownModelFinding(modelName) ==
    Finding("INVARIANT_UNKNOWN_MODEL", "warning", "3NF", modelName, Null,
        "Invariants reference model \"" \o modelName
            \o "\" which does not exist in the schema.",
        Some("Update the invariants file to remove or rename model '" \o modelName \o "'."))

UnknownFieldFinding(modelName, field) ==
    Finding("INVARIANT_UNKNOWN_FIELD", "warning", "3NF", modelName, Some(field),
        "Invariants reference field \"" \o field
            \o "\" which does not exist in model \"" \o modelName \o "\".",
        Some("Update the invariants file to remove or rename field '" \o field
            \o "' in model '" \o modelName \o "'."))

\* Mutant: every reference is checked, without de-duplication.
allReferencedFieldsWithRepeats(fd) == fd.determinant \o fd.dependent

allReferencedFields(fd) == Distinct(fd.determinant \o fd.dependent)

\* Mutant: one seen-set for the whole entry, so a missing field is reported
\* once per model however many declared FDs refer to it.
validateDeclaredFdsSharedSet(entry, model) ==
    LET fieldNames == {model.fields[i].name : i \in 1..Len(model.fields)}
        OfField(field) ==
            IF field \notin fieldNames
            THEN <<UnknownFieldFinding(entry.modelName, field)>>
            ELSE <<>>
    IN  IF entry.functionalDependencies # Null
        THEN FlatMap(OfField,
                     Distinct(FlatMap(allReferencedFieldsWithRepeats,
                                      entry.functionalDependencies[1])))
        ELSE <<>>

validateDeclaredFds(entry, model) ==
    LET fieldNames == {model.fields[i].name : i \in 1..Len(model.fields)}
        OfField(field) ==
            IF field \notin fieldNames
            THEN <<UnknownFieldFinding(entry.modelName, field)>>
            ELSE <<>>
        OfFd(fd) == FlatMap(OfField, allReferencedFields(fd))
    IN  IF entry.functionalDependencies # Null
        THEN FlatMap(OfFd, entry.functionalDependencies[1])
        ELSE <<>>

NoFieldsModel == Model("", <<>>, Null, <<>>, <<>>, <<>>)

\* Mutant: the unknown model is reported and its FDs are checked all the same.
validateEntryWithoutContinue(entry, c) ==
    LET model == modelMapGet(c, entry.modelName)
    IN  IF model = Null
        THEN <<UnknownModelFinding(entry.modelName)>>
                \o validateDeclaredFds(entry, NoFieldsModel)
        ELSE validateDeclaredFds(entry, model[1])

validateEntry(entry, c) ==
    LET model == modelMapGet(c, entry.modelName)
    IN  IF model = Null
        THEN <<UnknownModelFinding(entry.modelName)>>
        ELSE validateDeclaredFds(entry, model[1])

validateInvariantsAgainstContract(inv, c) ==
    LET OfEntry(entry) == validateEntry(entry, c)
    IN  FlatMap(OfEntry, inv)

\* Mutant: each FD put in front of the list (unshift) instead of pushed.
invariantsToFdsUnshift(inv) ==
    LET OfEntry(entry) ==
            LET OfFd(fd) ==
                    <<FunctionalDependency(entry.modelName, fd.determinant,
                                           fd.dependent, "invariant")>>
            IN  IF entry.functionalDependencies # Null
                THEN FlatMap(OfFd, entry.functionalDependencies[1])
                ELSE <<>>
        all == FlatMap(OfEntry, inv)
    IN  [i \in 1..Len(all) |-> all[Len(all) + 1 - i]]

\* invariantsToFds
invariantsToFds(inv) ==
    LET OfEntry(entry) ==
            LET OfFd(fd) ==
                    <<FunctionalDependency(entry.modelName, fd.determinant,
                                           fd.dependent, "invariant")>>
            IN  IF entry.functionalDependencies # Null
                THEN FlatMap(OfFd, entry.functionalDependencies[1])
                ELSE <<>>
    IN  FlatMap(OfEntry, inv)

(***************************************************************************)
(* Universe of the validator: the contract is empty or holds the model     *)
(* "User" (id, email, name; primary key id; email unique or not); the      *)
(* invariants file declares at most MaxFds FDs in all, for "User" and for  *)
(* "NonExistentModel", over existing and missing field names.              *)
(***************************************************************************)
UserFields == <<Field("email", "String"), Field("id", "Int"), Field("name", "String")>>

UserModels ==
    {Model("User", UserFields, Some(<<"id">>), uqs, <<>>, <<>>) :
        uqs \in {<<>>, <<<<"email">>>>}}

InvContracts == {<<>>} \cup {<<m>> : m \in UserModels}

InvDeclaredFds ==
    {InvariantFd(det, dep) :
        det \in {<<"email">>, <<"name">>, <<"ghost">>},
        dep \in {<<"name">>, <<"ghost">>, <<"alsoFake">>}}

InvModelNames == {"User", "NonExistentModel"}

\* The values of functionalDependencies that declare exactly n FDs
DeclaredLists(n) ==
    IF n = 0 THEN {Null, Some(<<>>)}
    ELSE {Some(l) : l \in [1..n -> InvDeclaredFds]}

InvariantsFiles ==
    {<<>>}
    \cup UNION {{<<InvariantsEntry(a, d)>> : a \in InvModelNames, d \in DeclaredLists(n)} :
                n \in 0..MaxFds}
    \cup UNION {{<<InvariantsEntry(ab[1], d1), InvariantsEntry(ab[2], d2)>> :
                    ab \in {q \in InvModelNames \X InvModelNames : q[1] # q[2]},
                    d1 \in DeclaredLists(n[1]), d2 \in DeclaredLists(n[2])} :
                n \in {q \in (0..MaxFds) \X (0..MaxFds) : q[1] + q[2] <= MaxFds}}

InitInv ==
    /\ contract \in InvContracts
    /\ fds = <<>>
    /\ invariants \in InvariantsFiles
    /\ options = NoOptions
    /\ invariantsFile = NoFile
    /\ sql = <<>>
    /\ pc = "ready"
    /\ findings = <<>>
    /\ metadata = Null
    /\ calls = <<>>

CallValidateInvariants ==
    /\ pc = "ready"
    /\ pc' = "validateInvariantsAgainstContract"
    /\ findings' = validateInvariantsAgainstContract(invariants, contract)
    /\ UNCHANGED <<contract, fds, invariants, options, metadata, invariantsFile, sql, calls>>

NextInv == CallValidateInvariants

SpecInv == InitInv /\ [][NextInv]_vars

CallInvariantsToFds ==
    /\ pc = "ready"
    /\ pc' = "invariantsToFds"
    /\ fds' = invariantsToFds(invariants)
    /\ UNCHANGED <<contract, invariants, options, findings, metadata, invariantsFile, sql, calls>>

NextToFds == CallInvariantsToFds

SpecToFds == InitInv /\ [][NextToFds]_vars

(***************************************************************************)
(* C7, C8, C9                                                              *)
(***************************************************************************)
ModelNamed(c, n) == CHOOSE m \in SetOf(c) : m.name = n

IsKnownModel(c, n) == \E m \in SetOf(c) : m.name = n

DeclaredOf(entry) ==
    IF entry.functionalDependencies = Null THEN <<>>
    ELSE entry.functionalDependencies[1]

\* The determinant is the field set of the primary key or of a unique constraint
DeterminantBacked(m, fd) ==
    \/ m.primaryKey # Null /\ SetOf(m.primaryKey[1]) = SetOf(fd.determinant)
    \/ \E u \in SetOf(m.uniqueConstraints) : SetOf(u) = SetOf(fd.determinant)

\* C7 as claimed: validateInvariantsAgainstContract emits an
\* INVARIANT_DETERMINANT_NOT_ENFORCED finding (warning, 3NF) for every
\* declared FD on a known model whose determinant is not the field set of the
\* model's primary key or of one of its unique constraints, and none for a
\* declared FD whose determinant is so backed.
C7_DeterminantNotEnforcedReported ==
    pc = "validateInvariantsAgainstContract" =>
        \A e \in 1..Len(invariants) :
            LET entry == invariants[e]
                NotEnforced(f) ==
                    /\ f.rule = "INVARIANT_DETERMINANT_NOT_ENFORCED"
                    /\ f.model = entry.modelName
                    /\ f.severity = "warning"
                    /\ f.normalForm = "3NF"
                Unbacked(fd) == ~DeterminantBacked(ModelNamed(contract, entry.modelName), fd)
            IN  IsKnownModel(contract, entry.modelName) =>
                    Count(NotEnforced, findings) = Count(Unbacked, DeclaredOf(entry))

\* The case C7 fails on: a declared FD on User whose determinant (name) no
\* primary key or unique constraint backs, after validation.
C7_UnbackedDeterminantCase ==
    /\ pc = "validateInvariantsAgainstContract"
    /\ \E e \in 1..Len(invariants) :
          /\ IsKnownModel(contract, invariants[e].modelName)
          /\ \E i \in 1..Len(DeclaredOf(invariants[e])) :
                DeclaredOf(invariants[e])[i].determinant = <<"name">>

\* C8: every model name declared in the invariants file and absent from the
\* contract gets exactly one finding, an INVARIANT_UNKNOWN_MODEL finding with
\* field null, and no other finding, however many FDs it declares; the
\* validator returns its findings.
C8_UnknownModelOneFinding ==
    pc = "validateInvariantsAgainstContract" =>
        \A e \in 1..Len(invariants) :
            LET entry == invariants[e]
                OfModel(f) == f.model = entry.modelName
                Unknown(f) ==
                    /\ OfModel(f)
                    /\ f.rule = "INVARIANT_UNKNOWN_MODEL"
                    /\ f.field = Null
            IN  ~IsKnownModel(contract, entry.modelName) =>
                    Count(OfModel, findings) = 1 /\ Count(Unknown, findings) = 1

\* Witness of C8: an unknown model that declares two FDs over missing fields,
\* next to a known model, after validation.
C8_Witness ==
    /\ pc = "validateInvariantsAgainstContract"
    /\ contract # <<>>
    /\ \E e \in 1..Len(invariants) :
          /\ invariants[e].modelName = "NonExistentModel"
          /\ Len(DeclaredOf(invariants[e])) = 2
          /\ DeclaredOf(invariants[e])[1].determinant = <<"ghost">>

ReferencedNames(inv) ==
    UNION {UNION {SetOf(DeclaredOf(inv[e])[i].determinant)
                    \cup SetOf(DeclaredOf(inv[e])[i].dependent) :
                  i \in 1..Len(DeclaredOf(inv[e]))} :
           e \in 1..Len(inv)}

\* C9: for a model of the contract, each declared FD yields exactly one
\* INVARIANT_UNKNOWN_FIELD finding per distinct field name of its determinant
\* or dependent that is not a field of the model (one, not two, when the name
\* is in both), and none for a name that is a field: per name the findings
\* number the declared FDs that reference it, and nothing else is reported
\* for the model.
C9_UnknownFieldOncePerFd ==
    pc = "validateInvariantsAgainstContract" =>
        \A e \in 1..Len(invariants) :
            LET entry == invariants[e]
                m == ModelNamed(contract, entry.modelName)
                OfModel(f) == f.model = entry.modelName
                Missing ==
                    {n \in ReferencedNames(invariants) : ~HasField(m, n)}
            IN  IsKnownModel(contract, entry.modelName) =>
                    /\ \A n \in ReferencedNames(invariants) :
                          LET Names(f) ==
                                  /\ OfModel(f)
                                  /\ f.rule = "INVARIANT_UNKNOWN_FIELD"
                                  /\ f.field = Some(n)
                              Refers(fd) ==
                                  n \in SetOf(fd.determinant) \cup SetOf(fd.dependent)
                          IN  Count(Names, findings) =
                                  (IF n \in Missing
                                   THEN Count(Refers, DeclaredOf(entry)) ELSE 0)
                    /\ \A i \in 1..Len(findings) :
                          OfModel(findings[i]) =>
                              /\ findings[i].rule = "INVARIANT_UNKNOWN_FIELD"
                              /\ \E n \in Missing : findings[i].field = Some(n)

\* Witness of C9: an FD on User whose determinant and dependent are both the
\* missing field ghost, reported once.
C9_Witness ==
    /\ pc = "validateInvariantsAgainstContract"
    /\ contract # <<>>
    /\ invariants = <<InvariantsEntry("User",
                        Some(<<InvariantFd(<<"ghost">>, <<"ghost">>)>>))>>
    /\ Len(findings) = 1

(***************************************************************************)
(* inferFunctionalDependencies (analysis/inferFds.ts), per model: pk->all, *)
(* unique->all, fk->referenced; an FD with an empty dependent is omitted.  *)
(***************************************************************************)
\* The names of the fields of the model that det does not hold
otherFieldNames(model, det) ==
    LET Other(n) == ~Includes(det, n)
    IN  Filter(Other, fieldNamesOf(model))

\* Mutant: the pk FD emitted even when its dependent is empty.
inferPkFdsKeepingEmpty(model) ==
    LET PkFd(pk) ==
            <<FunctionalDependency(model.name, pk, otherFieldNames(model, pk), "pk")>>
    IN  FlatMap(PkFd, model.primaryKey)

\* pk->all
inferPkFds(model) ==
    LET PkFd(pk) ==
            IF otherFieldNames(model, pk) # <<>>
            THEN <<FunctionalDependency(model.name, pk, otherFieldNames(model, pk), "pk")>>
            ELSE <<>>
    IN  FlatMap(PkFd, model.primaryKey)

\* unique->all
inferUniqueFds(model) ==
    LET UniqueFd(uq) ==
            IF uq # <<>> /\ otherFieldNames(model, uq) # <<>>
            THEN <<FunctionalDependency(model.name, uq, otherFieldNames(model, uq), "unique")>>
            ELSE <<>>
    IN  FlatMap(UniqueFd, model.uniqueConstraints)

\* Mutant: the dependent holds the bare names of the referenced fields.
inferFkFdsBareNames(model) ==
    LET FkFd(fk) ==
            <<FunctionalDependency(model.name, fk.fields, fk.referencedFields, "fk")>>
    IN  FlatMap(FkFd, model.foreignKeys)

\* fk->referenced
inferFkFds(model) ==
    LET FkFd(fk) ==
            <<FunctionalDependency(model.name, fk.fields,
                [i \in 1..Len(fk.referencedFields) |->
                    fk.referencedModel \o "." \o fk.referencedFields[i]],
                "fk")>>
    IN  FlatMap(FkFd, model.foreignKeys)

inferModelFds(model) ==
    inferPkFds(model) \o inferUniqueFds(model) \o inferFkFds(model)

inferFunctionalDependencies(c) == FlatMap(inferModelFds, c)

(***************************************************************************)
(* check1nf (normalizeChecks/check1nf.ts): Json fields, String fields with *)
(* a list-like name, numbered repeating groups.  The name heuristics are   *)
(* tables over the field names of the universe.                            *)
(***************************************************************************)
ListLikeNames == {"tagIds", "roleList", "categoryIds"}

\* The base name of a field name that ends in an integer suffix
NumberedBases == [phone1 |-> "phone", phone2 |-> "phone", phone3 |-> "phone"]

check1nfModel(model) ==
    LET OfJson(f) ==
            IF f.type = "Json"
            THEN <<Finding("NF1_JSON_RELATION_SUSPECTED", "info", "1NF", model.name,
                     Some(f.name),
                     "Json field \"" \o f.name \o "\" may embed a relation.",
                     Some("Extract the structured data into its own model."))>>
            ELSE <<>>
        OfList(f) ==
            IF f.type = "String" /\ f.name \in ListLikeNames
            THEN <<Finding("NF1_LIST_IN_STRING_SUSPECTED", "info", "1NF", model.name,
                     Some(f.name),
                     "String field \"" \o f.name \o "\" may contain a list of values.",
                     Some("Use a relation instead of a delimited string."))>>
            ELSE <<>>
        Numbered(n) == n \in DOMAIN NumberedBases
        bases == Distinct([i \in 1..Len(Filter(Numbered, fieldNamesOf(model))) |->
                              NumberedBases[Filter(Numbered, fieldNamesOf(model))[i]]])
        OfBase(b) ==
            LET Member(n) == Numbered(n) /\ NumberedBases[n] = b
                members == Filter(Member, fieldNamesOf(model))
            IN  IF Len(members) >= 2
                THEN <<Finding("NF1_REPEATING_GROUP_SUSPECTED", "info", "1NF", model.name,
                         Null,
                         "Fields [" \o Join(members, ", ") \o "] look like a repeating group \"" \o b \o "\".",
                         Some("Move the repeated fields into a child model."))>>
                ELSE <<>>
    IN  FlatMap(OfJson, model.fields) \o FlatMap(OfList, model.fields)
            \o FlatMap(OfBase, bases)

check1nf(c) == FlatMap(check1nfModel, c)

(***************************************************************************)
(* check3nf (normalizeChecks/check3nf.ts): NF3_VIOLATION and               *)
(* BCNF_VIOLATION, once per offending invariant-declared FD, model by      *)
(* model.                                                                  *)
(***************************************************************************)
check3nfModel(c, fdList, model) ==
    LET keys == extractCandidateKeys(c, model.name)
        InSomeKey(n) == \E k \in 1..Len(keys) : Includes(keys[k].fields, n)
        IsKey(det) ==
            \E k \in 1..Len(keys) :
                {keys[k].fields[i] : i \in 1..Len(keys[k].fields)}
                    = {det[i] : i \in 1..Len(det)}
        Declared(fd) == fd.model = model.name /\ fd.source = "invariant"
        OfFd(fd) ==
            (IF /\ \A i \in 1..Len(fd.determinant) : ~InSomeKey(fd.determinant[i])
                /\ \A i \in 1..Len(fd.dependent) : ~InSomeKey(fd.dependent[i])
             THEN <<Finding("NF3_VIOLATION", "warning", "3NF", model.name, Null,
                      "Non-key fields (" \o Join(fd.determinant, ", ")
                          \o ") determine non-key fields (" \o Join(fd.dependent, ", ") \o ").",
                      Some("Extract the dependent fields into their own model."))>>
             ELSE <<>>)
            \o (IF ~IsKey(fd.determinant)
                THEN <<Finding("BCNF_VIOLATION", "warning", "BCNF", model.name, Null,
                         "Determinant (" \o Join(fd.determinant, ", ")
                             \o ") is not a candidate key.",
                         Some("Make the determinant a key or extract the dependency."))>>
                ELSE <<>>)
    IN  FlatMap(OfFd, Filter(Declared, fdList))

check3nf(c, fdList) ==
    LET OfModel(model) == check3nfModel(c, fdList, model)
    IN  FlatMap(OfModel, c)

(***************************************************************************)
(* audit (index.ts).  The contract is what parseSchema and extractContract *)
(* returned for options.schemaPath; invariants is what parseInvariantsFile *)
(* returned when options.invariantsPath is given.                          *)
(***************************************************************************)
\* What a call leaves when it returns v
Returned(v) == [returned |-> v]

Throws(outcome) == "raised" \in DOMAIN outcome

\* invariantsFileSchema (invariants/schema.ts): every declared FD has a
\* non-empty determinant and a non-empty dependent array.
invariantsFileSchemaAccepts(document) ==
    \A i \in 1..Len(document) :
        \/ document[i].functionalDependencies = Null
        \/ \A k \in 1..Len(document[i].functionalDependencies[1]) :
              /\ Len(document[i].functionalDependencies[1][k].determinant) >= 1
              /\ Len(document[i].functionalDependencies[1][k].dependent) >= 1

\* Mutant: the JSON document returned without the structural schema.
parseInvariantsFileUnvalidated(file) ==
    IF file.json = Null THEN Raised("SyntaxError") ELSE Returned(file.json[1])

parseInvariantsFile(file) ==
    IF file.json = Null THEN Raised("SyntaxError")
    ELSE IF ~invariantsFileSchemaAccepts(file.json[1]) THEN Raised("ZodError")
    ELSE Returned(file.json[1])

\* allFds
auditFds(c, opts, inv) ==
    inferFunctionalDependencies(c)
        \o (IF opts.invariantsGiven THEN invariantsToFds(inv) ELSE <<>>)

\* invariantFindings
auditInvariantFindings(c, opts, inv) ==
    IF opts.invariantsGiven THEN validateInvariantsAgainstContract(inv, c) ELSE <<>>

auditFindings(c, opts, inv) ==
    check1nf(c)
        \o check2nf(c, auditFds(c, opts, inv))
        \o check3nf(c, auditFds(c, opts, inv))
        \o checkSoftDelete(c)
        \o auditInvariantFindings(c, opts, inv)

\* Values of new Date().toISOString()
Timestamps == {"2026-01-01T00:00:00.000Z", "2026-01-01T00:00:01.000Z"}

\* Mutant: findingCount taken from the number of models.
AuditMetadataCountingModels(path, ts, models, count) ==
    [schemaPath |-> path, timestamp |-> ts, modelCount |-> models, findingCount |-> models]

AuditMetadata(path, ts, models, count) ==
    [schemaPath |-> path, timestamp |-> ts, modelCount |-> models, findingCount |-> count]

Audit ==
    /\ pc = "ready"
    /\ LET parsed == IF options.invariantsGiven
                     THEN parseInvariantsFile(invariantsFile)
                     ELSE Returned(<<>>)
       IN  IF Throws(parsed)
           THEN /\ pc' = "auditRejected"
                /\ UNCHANGED <<invariants, findings, metadata>>
           ELSE /\ pc' = "audit"
                /\ invariants' = parsed.returned
                /\ findings' = auditFindings(contract, options, parsed.returned)
                /\ \E now \in Timestamps :
                      metadata' = Some(AuditMetadata(options.schemaPath,
                                      IF options.noTimestamp THEN Null ELSE Some(now),
                                      Len(contract), Len(findings')))
    /\ UNCHANGED <<contract, fds, options, invariantsFile, sql, calls>>

(***************************************************************************)
(* Universe of audit: single-model contracts taken from the universes of   *)
(* the checks, a "Profile" model with 1NF patterns, a two-model contract,  *)
(* audited without an invariants file; and the validator's contracts       *)
(* audited with each of its invariants files.                              *)
(***************************************************************************)
ProfileFields ==
    {Field("metadata", "Json"), Field("phone1", "String"),
     Field("phone2", "String"), Field("tagIds", "String")}

ProfileModels ==
    {Model("Profile", fs, Null, <<>>, <<>>, <<>>) :
        fs \in {s \in FieldLists(ProfileFields) :
                   \A i \in 1..(Len(s) - 1) :
                       \E j \in 1..Len(<<"metadata", "phone1", "phone2", "tagIds">>) :
                           /\ <<"metadata", "phone1", "phone2", "tagIds">>[j] = s[i].name
                           /\ s[i + 1].name \in
                                 SetOf(SubSeq(<<"metadata", "phone1", "phone2", "tagIds">>, j + 1, 4))}}

AuditSingleModels ==
    {m \in FkModels :
        m.uniqueConstraints = <<>> /\ Len(m.indexes) <= 1 /\ Len(m.foreignKeys) <= 1}
    \cup {m \in EnrollmentModels : m.uniqueConstraints = <<>> /\ Len(m.foreignKeys) <= 2}
    \cup {m \in SdModels : m.fields[1].name = "email" /\ Len(m.uniqueConstraints) <= 1}
    \cup ProfileModels

AuditPlainContracts ==
    {<<>>}
    \cup {<<m>> : m \in AuditSingleModels}
    \cup {<<p, u>> : p \in {m \in FkModels :
                              /\ m.primaryKey = Some(<<"id">>)
                              /\ m.uniqueConstraints = <<>> /\ m.indexes = <<>>
                              /\ Len(m.foreignKeys) = 1},
                     u \in UserModels}

\* Declared FDs the structural schema refuses
InvalidDeclaredFds == {InvariantFd(<<>>, <<"name">>), InvariantFd(<<"email">>, <<>>)}

InvalidDocuments ==
    {<<InvariantsEntry("User", Some(declared))>> :
        declared \in {d \in SeqsBetween(InvDeclaredFds \cup InvalidDeclaredFds, 1, MaxFds) :
                         \E k \in 1..Len(d) : d[k] \in InvalidDeclaredFds}}

InvariantsFileTexts ==
    {MalformedText} \cup {JsonText(d) : d \in InvariantsFiles \cup InvalidDocuments}

SchemaPaths == {"schema.prisma", "prisma/other.prisma"}

Init ==
    /\ \/ /\ contract \in AuditPlainContracts
          /\ invariantsFile = NoFile
          /\ \E path \in SchemaPaths, omit \in BOOLEAN :
                options = AuditOptions(path, FALSE, omit)
       \/ /\ contract \in InvContracts
          /\ invariantsFile \in InvariantsFileTexts
          /\ \E omit \in BOOLEAN : options = AuditOptions("schema.prisma", TRUE, omit)
    /\ invariants = <<>>
    /\ fds = <<>>
    /\ sql = <<>>
    /\ pc = "ready"
    /\ findings = <<>>
    /\ metadata = Null
    /\ calls = <<>>

Next == Audit

Spec == Init /\ [][Next]_vars

(***************************************************************************)
(* C10                                                                     *)
(***************************************************************************)
\* C10 as claimed: the finding list audit returns holds exactly the findings
\* that the 1NF checks, the 2NF checks, the 3NF/BCNF checks, the
\* schema-quality checks (FK_MISSING_INDEX and the soft-delete checks) and,
\* when an invariants file is given, the invariant validator produce for the
\* audited contract.
C10_AuditMergesEveryRuleGroup ==
    pc = "audit" =>
        SetOf(findings) =
            SetOf(check1nf(contract))
                \cup SetOf(check2nf(contract, auditFds(contract, options, invariants)))
                \cup SetOf(check3nf(contract, auditFds(contract, options, invariants)))
                \cup SetOf(checkFkIndexes(contract))
                \cup SetOf(checkSoftDelete(contract))
                \cup (IF options.invariantsGiven
                      THEN SetOf(validateInvariantsAgainstContract(invariants, contract))
                      ELSE {})

\* The case C10 fails on: audit has returned for a contract in which
\* checkFkIndexes finds an uncovered foreign key.
C10_UncoveredFkCase ==
    /\ pc = "audit"
    /\ checkFkIndexes(contract) # <<>>

(***************************************************************************)
(* C11                                                                     *)
(***************************************************************************)
\* The invariants files that declare the entries of inv in another order
ReorderedEntries(inv) ==
    {[i \in 1..Len(inv) |-> inv[p[i]]] : p \in Permutations(1..Len(inv))}

\* C11 as claimed: the finding list audit returns does not depend on the
\* declaration order of its input: auditing the same contract with the
\* entries of the invariants file declared in any other order yields the
\* same findings in the same order (and auditing the same input again yields
\* the same list).
C11_AuditIndependentOfDeclarationOrder ==
    pc = "audit" =>
        \A inv2 \in ReorderedEntries(invariants) :
            auditFindings(contract, options, inv2) = findings

\* The case C11 fails on: audit has returned for an invariants file with two
\* entries whose findings differ.
C11_TwoEntriesCase ==
    /\ pc = "audit"
    /\ options.invariantsGiven
    /\ Len(invariants) = 2
    /\ validateEntry(invariants[1], contract) # validateEntry(invariants[2], contract)
    /\ validateEntry(invariants[1], contract) # <<>>
    /\ validateEntry(invariants[2], contract) # <<>>

(***************************************************************************)
(* The four check functions called directly on one universe: the empty     *)
(* contract, a model with no fields, no primary key and no constraints,    *)
(* the single-model contracts of the checks, with FD lists and invariants  *)
(* files.                                                                  *)
(***************************************************************************)
EmptyModel == Model("Empty", <<>>, Null, <<>>, <<>>, <<>>)

TotalContracts ==
    {<<>>, <<EmptyModel>>} \cup {<<m>> : m \in AuditSingleModels} \cup InvContracts

InitTotal ==
    /\ \/ /\ contract \in TotalContracts
          /\ fds \in SeqsBetween(Nf2Fds, 0, 1)
          /\ invariants = <<>>
       \/ /\ contract \in InvContracts \cup {<<EmptyModel>>}
          /\ fds = <<>>
          /\ invariants \in InvariantsFiles
    /\ options = NoOptions
    /\ invariantsFile = NoFile
    /\ sql = <<>>
    /\ pc = "ready"
    /\ findings = <<>>
    /\ metadata = Null
    /\ calls = <<>>

NextTotal ==
    \/ CallCheckFkIndexes
    \/ CallCheck2nf
    \/ CallCheckSoftDelete
    \/ CallValidateInvariants

SpecTotal == InitTotal /\ [][NextTotal]_vars

(***************************************************************************)
(* C12                                                                     *)
(***************************************************************************)
RuleCodes ==
    {"NF1_JSON_RELATION_SUSPECTED", "NF1_LIST_IN_STRING_SUSPECTED",
     "NF1_REPEATING_GROUP_SUSPECTED", "NF2_PARTIAL_DEPENDENCY_SUSPECTED",
     "NF2_JOIN_TABLE_DUPLICATED_ATTR_SUSPECTED", "NF3_VIOLATION", "BCNF_VIOLATION",
     "FK_MISSING_INDEX", "SOFTDELETE_MISSING_IN_UNIQUE", "SOFTDELETE_AT_WITHOUT_BY",
     "SOFTDELETE_BY_WITHOUT_AT", "INVARIANT_UNKNOWN_MODEL", "INVARIANT_UNKNOWN_FIELD",
     "INVARIANT_DETERMINANT_NOT_ENFORCED"}

IsFinding(f) ==
    /\ DOMAIN f = {"rule", "severity", "normalForm", "model", "field", "message", "fix"}
    /\ f.rule \in RuleCodes
    /\ f.severity \in {"info", "warning", "error"}
    /\ f.normalForm \in {"1NF", "2NF", "3NF", "BCNF", "SCHEMA"}
    /\ Len(f.field) <= 1
    /\ Len(f.fix) <= 1

ContractOnlyChecks == {"checkFkIndexes", "check2nf", "checkSoftDelete"}

\* C12: checkFkIndexes, check2nf, checkSoftDelete and
\* validateInvariantsAgainstContract return a list of findings and never
\* raise, whatever the contract (zero models, a model with no primary key, no
\* fields or no constraints) and the invariants file; on the empty contract
\* the three contract-only checks return the empty list.
C12_ChecksAreTotal ==
    pc \in ContractOnlyChecks \cup {"validateInvariantsAgainstContract"} =>
        /\ \A i \in 1..Len(findings) : IsFinding(findings[i])
        /\ (contract = <<>> /\ pc \in ContractOnlyChecks) => findings = <<>>

\* A model with a unique constraint and no soft-delete field has gone through
\* checkSoftDelete, and the empty contract through each contract-only check.
C12_Witness ==
    \/ /\ pc = "checkSoftDelete"
       /\ Len(contract) = 1
       /\ contract[1].uniqueConstraints # <<>>
       /\ findSoftDeleteField(contract[1]) = Null
       /\ findings = <<>>
    \/ /\ pc = "check2nf"
       /\ contract = <<EmptyModel>>
       /\ fds # <<>>
       /\ findings = <<>>

(***************************************************************************)
(* C13                                                                     *)
(***************************************************************************)
\* The file is not JSON, or declares an FD with an empty determinant or an
\* empty dependent array.
IsMalformedOrInvalid(file) ==
    \/ file.json = Null
    \/ \E i \in 1..Len(file.json[1]) :
          /\ file.json[1][i].functionalDependencies # Null
          /\ \E k \in 1..Len(file.json[1][i].functionalDependencies[1]) :
                \/ file.json[1][i].functionalDependencies[1][k].determinant = <<>>
                \/ file.json[1][i].functionalDependencies[1][k].dependent = <<>>

\* C13: an audit given an invariants file that is malformed JSON or fails the
\* structural schema is rejected: it returns no AuditResult (no findings, no
\* metadata) and the anomaly is not turned into a finding.
C13_MalformedInvariantsAbortAudit ==
    (pc # "ready" /\ options.invariantsGiven /\ IsMalformedOrInvalid(invariantsFile)) =>
        /\ pc = "auditRejected"
        /\ findings = <<>>
        /\ metadata = Null
        /\ calls = <<>>

\* An audit was rejected for a JSON file whose only defect is an FD with an
\* empty determinant, declared next to a well-formed FD.
C13_Witness ==
    /\ pc = "auditRejected"
    /\ invariantsFile.json # Null
    /\ \E i \in 1..Len(invariantsFile.json[1]) :
          /\ invariantsFile.json[1][i].functionalDependencies # Null
          /\ Len(invariantsFile.json[1][i].functionalDependencies[1]) = 2
          /\ invariantsFile.json[1][i].functionalDependencies[1][2].determinant = <<>>

(***************************************************************************)
(* C14                                                                     *)
(***************************************************************************)
DeclaredCount(entry) ==
    IF entry.functionalDependencies = Null THEN 0
    ELSE Len(entry.functionalDependencies[1])

\* The number of FDs declared by the first n entries
RECURSIVE DeclaredBefore(_, _)
DeclaredBefore(inv, n) ==
    IF n = 0 THEN 0 ELSE DeclaredBefore(inv, n - 1) + DeclaredCount(inv[n])

\* C14: invariantsToFds returns one FD per declared entry, in declaration
\* order, with source "invariant", the declaring model's name and the
\* declared determinant and dependent lists, whether or not the model and the
\* fields exist in the contract; an entry without functionalDependencies
\* contributes nothing.
C14_OneFdPerDeclaredEntry ==
    pc = "invariantsToFds" =>
        /\ Len(fds) = DeclaredBefore(invariants, Len(invariants))
        /\ \A i \in 1..Len(invariants) :
              \A k \in 1..DeclaredCount(invariants[i]) :
                  fds[DeclaredBefore(invariants, i - 1) + k] =
                      [model |-> invariants[i].modelName,
                       determinant |-> invariants[i].functionalDependencies[1][k].determinant,
                       dependent |-> invariants[i].functionalDependencies[1][k].dependent,
                       source |-> "invariant"]

\* Two FDs declared for a model and a field the contract does not have were
\* converted, in order, next to an entry without functionalDependencies.
C14_Witness ==
    /\ pc = "invariantsToFds"
    /\ Len(fds) = 2
    /\ fds[1] # fds[2]
    /\ \E i \in 1..Len(invariants) :
          /\ invariants[i].modelName = "NonExistentModel"
          /\ DeclaredCount(invariants[i]) >= 1
          /\ invariants[i].functionalDependencies[1][1].determinant = <<"ghost">>
    /\ \E i \in 1..Len(invariants) : invariants[i].functionalDependencies = Null

(***************************************************************************)
(* inferFunctionalDependencies called directly, on the contracts of audit, *)
(* a model whose only field is its primary key and a model with nothing.   *)
(***************************************************************************)
OnlyKeyModel == Model("Tag", <<Field("id", "Int")>>, Some(<<"id">>), <<>>, <<>>, <<>>)

InferContracts == AuditPlainContracts \cup {<<OnlyKeyModel>>, <<EmptyModel>>}

InitInfer ==
    /\ contract \in InferContracts
    /\ fds = <<>>
    /\ invariants = <<>>
    /\ options = NoOptions
    /\ invariantsFile = NoFile
    /\ sql = <<>>
    /\ pc = "ready"
    /\ findings = <<>>
    /\ metadata = Null
    /\ calls = <<>>

CallInferFunctionalDependencies ==
    /\ pc = "ready"
    /\ pc' = "inferFunctionalDependencies"
    /\ fds' = inferFunctionalDependencies(contract)
    /\ UNCHANGED <<contract, invariants, options, findings, metadata, invariantsFile, sql, calls>>

NextInfer == CallInferFunctionalDependencies

SpecInfer == InitInfer /\ [][NextInfer]_vars

(***************************************************************************)
(* C15, C16                                                                *)
(***************************************************************************)
\* The FDs of the list that belong to the model and have the source
FdsOf(fdList, modelName, src) ==
    LET Mine(fd) == fd.model = modelName /\ fd.source = src
    IN  Filter(Mine, fdList)

\* C15: inferFunctionalDependencies emits exactly one pk-sourced FD for a
\* model iff the model has a primary key and a field outside it; its
\* determinant is the primary-key fields and its dependent every other field
\* name of the model.  A model whose fields are all key fields has no
\* pk-sourced FD, and no emitted FD has an empty dependent.
C15_PkFdIffFieldOutsidePk ==
    pc = "inferFunctionalDependencies" =>
        /\ \A i \in 1..Len(contract) :
              LET m == contract[i]
                  pkFds == FdsOf(fds, m.name, "pk")
              IN  IF m.primaryKey # Null /\ HasFieldOutsidePk(m)
                  THEN /\ Len(pkFds) = 1
                       /\ pkFds[1].determinant = m.primaryKey[1]
                       /\ SetOf(pkFds[1].dependent) = SetOf(fieldNamesOf(m)) \ PkSet(m)
                       /\ Len(pkFds[1].dependent) = Cardinality(SetOf(pkFds[1].dependent))
                  ELSE pkFds = <<>>
        /\ \A k \in 1..Len(fds) : fds[k].dependent # <<>>

\* FDs were inferred for a model whose fields are all primary-key fields
\* (none pk-sourced), and for a model with a field outside its primary key.
C15_Witness ==
    /\ pc = "inferFunctionalDependencies"
    /\ Len(contract) = 1
    /\ contract[1].primaryKey # Null
    /\ \/ /\ ~HasFieldOutsidePk(contract[1])
          /\ contract[1].foreignKeys # <<>>
          /\ fds # <<>>
       \/ contract = <<OnlyKeyModel>>

\* C16: inferFunctionalDependencies emits exactly one fk-sourced FD per
\* foreign key of every model, with determinant = the foreign key's local
\* fields and dependent = one "ReferencedModel.field" token per referenced
\* field, in order; the fk-sourced FDs of a model (a composite-key model
\* included) follow the order of its foreign keys.
C16_OneFkFdPerForeignKey ==
    pc = "inferFunctionalDependencies" =>
        \A i \in 1..Len(contract) :
            LET m == contract[i]
                fkFds == FdsOf(fds, m.name, "fk")
            IN  /\ Len(fkFds) = Len(m.foreignKeys)
                /\ \A k \in 1..Len(m.foreignKeys) :
                      /\ fkFds[k].determinant = m.foreignKeys[k].fields
                      /\ Len(fkFds[k].dependent) = Len(m.foreignKeys[k].referencedFields)
                      /\ \A j \in 1..Len(m.foreignKeys[k].referencedFields) :
                            fkFds[k].dependent[j] =
                                Join(<<m.foreignKeys[k].referencedModel,
                                       m.foreignKeys[k].referencedFields[j]>>, ".")

\* FDs were inferred for a composite-key model with two foreign keys, one of
\* them over two fields.
C16_Witness ==
    /\ pc = "inferFunctionalDependencies"
    /\ Len(contract) = 1
    /\ HasCompositePk(contract[1])
    /\ Len(contract[1].foreignKeys) = 2
    /\ \E k \in 1..2 : Len(contract[1].foreignKeys[k].fields) = 2
    /\ Len(FdsOf(fds, contract[1].name, "fk")) = 2

(***************************************************************************)
(* Strings as the SQL parser compares and converts them.                   *)
(***************************************************************************)
\* The UTF-16 code units of the table and column names of the universe
CodeUnits ==
    [id |-> <<105, 100>>,
     authorId |-> <<97, 117, 116, 104, 111, 114, 73, 100>>,
     email |-> <<101, 109, 97, 105, 108>>,
     orgId |-> <<111, 114, 103, 73, 100>>,
     title |-> <<116, 105, 116, 108, 101>>,
     parentId |-> <<112, 97, 114, 101, 110, 116, 73, 100>>,
     x |-> <<120>>,
     seq |-> <<115, 101, 113>>,
     User |-> <<85, 115, 101, 114>>,
     Post |-> <<80, 111, 115, 116>>,
     Ghost |-> <<71, 104, 111, 115, 116>>,
     Child |-> <<67, 104, 105, 108, 100>>,
     Parent |-> <<80, 97, 114, 101, 110, 116>>]

\* a < b for two strings given by their code units
CodeLess(a, b) ==
    \E k \in 1..(Len(a) + 1) :
        /\ \A j \in 1..(k - 1) : j <= Len(b) /\ a[j] = b[j]
        /\ k <= Len(b)
        /\ (k <= Len(a) => a[k] < b[k])

\* The code units of fields.join(',')
RECURSIVE JoinedCodeUnits(_)
JoinedCodeUnits(fields) ==
    IF fields = <<>> THEN <<>>
    ELSE IF Len(fields) = 1 THEN CodeUnits[fields[1]]
    ELSE CodeUnits[fields[1]] \o <<44>> \o JoinedCodeUnits(Tail(fields))

\* String.prototype.toUpperCase / toLowerCase on the spellings of the universe
UpperCaseOf ==
    ("serial" :> "SERIAL") @@ ("text" :> "TEXT") @@ ("Int" :> "INT")
        @@ ("timestamp with time zone" :> "TIMESTAMP WITH TIME ZONE")

toUpperCase(str) == IF str \in DOMAIN UpperCaseOf THEN UpperCaseOf[str] ELSE str

LowerCaseOf ==
    ("PRIMARY KEY" :> "primary key") @@ ("UNIQUE" :> "unique")
        @@ ("FOREIGN KEY" :> "foreign key") @@ ("CASCADE" :> "cascade")
        @@ ("RESTRICT" :> "restrict") @@ ("NO ACTION" :> "no action")
        @@ ("SET NULL" :> "set null") @@ ("Set Default" :> "set default")

toLowerCase(str) == IF str \in DOMAIN LowerCaseOf THEN LowerCaseOf[str] ELSE str

(***************************************************************************)
(* sortBy (util/index.ts): the elements in ascending order of their keys,  *)
(* elements with equal keys in their original order.  keys[i] holds the    *)
(* code units of the key of s[i].                                          *)
(***************************************************************************)
\* Mutant: the list returned as declared.
sortByKeysUnsorted(s, keys) == s

sortByKeys(s, keys) ==
    LET Before(j, i) == CodeLess(keys[j], keys[i]) \/ (keys[j] = keys[i] /\ j < i)
        Rank(i) == Cardinality({j \in 1..Len(s) : Before(j, i)}) + 1
    IN  [r \in 1..Len(s) |-> s[CHOOSE i \in 1..Len(s) : Rank(i) = r]]

\* sortBy(list, (e) => e.name)
sortByName(s) == sortByKeys(s, [i \in 1..Len(s) |-> CodeUnits[s[i].name]])

\* sortBy(list, (e) => e.fields.join(','))
sortByFieldList(s) == sortByKeys(s, [i \in 1..Len(s) |-> JoinedCodeUnits(s[i].fields)])

(***************************************************************************)
(* Type normalisation and referential actions (sqlSchema/parse.ts).        *)
(***************************************************************************)
SERIAL_TYPES == {"SERIAL", "BIGSERIAL", "SMALLSERIAL"}

TYPE_MAP ==
    ("TEXT" :> "String") @@
    ("VARCHAR" :> "String") @@
    ("CHAR" :> "String") @@
    ("CHARACTER VARYING" :> "String") @@
    ("CHARACTER" :> "String") @@
    ("UUID" :> "String") @@
    ("JSON" :> "Json") @@
    ("JSONB" :> "Json") @@
    ("TIMESTAMP" :> "DateTime") @@
    ("TIMESTAMPTZ" :> "DateTime") @@
    ("TIMESTAMP WITH TIME ZONE" :> "DateTime") @@
    ("TIMESTAMP WITHOUT TIME ZONE" :> "DateTime") @@
    ("DATE" :> "DateTime") @@
    ("INT" :> "Int") @@
    ("INTEGER" :> "Int") @@
    ("INT4" :> "Int") @@
    ("SERIAL" :> "Int") @@
    ("SMALLINT" :> "Int") @@
    ("SMALLSERIAL" :> "Int") @@
    ("BIGINT" :> "BigInt") @@
    ("BIGSERIAL" :> "BigInt") @@
    ("INT8" :> "BigInt") @@
    ("FLOAT" :> "Float") @@
    ("FLOAT4" :> "Float") @@
    ("FLOAT8" :> "Float") @@
    ("REAL" :> "Float") @@
    ("DOUBLE PRECISION" :> "Float") @@
    ("DECIMAL" :> "Decimal") @@
    ("NUMERIC" :> "Decimal") @@
    ("BOOLEAN" :> "Boolean") @@
    ("BOOL" :> "Boolean") @@
    ("BYTEA" :> "Bytes")

normalizeType(pgType) ==
    IF toUpperCase(pgType) \in DOMAIN TYPE_MAP THEN TYPE_MAP[toUpperCase(pgType)] ELSE pgType

DEFAULT_ON_DELETE == "NoAction"

DEFAULT_ON_UPDATE == "NoAction"

ACTION_MAP ==
    ("cascade" :> "Cascade") @@ ("restrict" :> "Restrict") @@ ("no action" :> "NoAction")
        @@ ("set null" :> "SetNull") @@ ("set default" :> "SetDefault")

\* value is Null when the action carries no value
toReferentialAction(value, fallback) ==
    IF value = Null THEN fallback
    ELSE IF toLowerCase(value[1]) \in DOMAIN ACTION_MAP
    THEN ACTION_MAP[toLowerCase(value[1])]
    ELSE fallback

(***************************************************************************)
(* The AST subset of node-sql-parser that parseSqlString reads.            *)
(***************************************************************************)
\* AstColumnDef; nullable, default_val, primary_key and unique are Null when
\* the column does not carry the clause
AstColumnDef(name, dataType, nullable, defaultVal, primaryKey, unique) ==
    [resource |-> "column", column |-> name, dataType |-> dataType,
     nullable |-> nullable, default_val |-> defaultVal,
     primary_key |-> primaryKey, unique |-> unique]

AstOnAction(type, value) == [type |-> type, value |-> value]

AstReference(table, definition, onAction) ==
    [table |-> table, definition |-> definition, on_action |-> onAction]

\* AstConstraintDef; reference is Null when there is no reference_definition
AstConstraintDef(name, constraintType, definition, reference) ==
    [resource |-> "constraint", constraint |-> name, constraint_type |-> constraintType,
     definition |-> definition, reference_definition |-> reference]

AstCreateTable(table, createDefinitions) ==
    [type |-> "create", keyword |-> "table", table |-> table,
     create_definitions |-> createDefinitions]

\* AstCreateIndex; indexType is Some("unique") for CREATE UNIQUE INDEX
AstCreateIndex(indexType, index, table, indexColumns) ==
    [type |-> "create", keyword |-> "index", index_type |-> indexType,
     index |-> index, table |-> table, index_columns |-> indexColumns]

\* ALTER TABLE table ADD <constraint definition>
AstAlterTable(table, definition) ==
    [type |-> "alter", keyword |-> "table", table |-> table, expr |-> <<definition>>]

(***************************************************************************)
(* parseSqlString (sqlSchema/parse.ts).  tableMap is the Map of the code   *)
(* as the sequence of its entries in insertion order.                      *)
(***************************************************************************)
FieldContract(name, type, isNullable, hasDefault) ==
    [name |-> name, type |-> type, isNullable |-> isNullable,
     hasDefault |-> hasDefault, isList |-> FALSE]

PrimaryKeyConstraint(fields) == [fields |-> fields, isComposite |-> Len(fields) > 1]

UniqueConstraint(name, fields) ==
    [name |-> name, fields |-> fields, isComposite |-> Len(fields) > 1]

IndexConstraint(name, fields) == [name |-> name, fields |-> fields]

ForeignKeyConstraint(fields, referencedModel, referencedFields, onDelete, onUpdate) ==
    [fields |-> fields, referencedModel |-> referencedModel,
     referencedFields |-> referencedFields, onDelete |-> onDelete, onUpdate |-> onUpdate]

TableEntry(name) ==
    [name |-> name, fields |-> <<>>, primaryKey |-> Null, uniqueConstraints |-> <<>>,
     indexes |-> <<>>, foreignKeys |-> <<>>]

hasTable(tableMap, name) == \E i \in 1..Len(tableMap) : tableMap[i].name = name

\* Mutant: a new entry whether or not the Map has the name.
ensureTableAlwaysNew(tableMap, name) == Append(tableMap, TableEntry(name))

ensureTable(tableMap, name) ==
    IF hasTable(tableMap, name) THEN tableMap ELSE Append(tableMap, TableEntry(name))

\* The position of the entry that tableMap.get(name) returns
tablePosition(tableMap, name) ==
    CHOOSE i \in 1..Len(tableMap) :
        /\ tableMap[i].name = name
        /\ \A j \in 1..Len(tableMap) : tableMap[j].name = name => j <= i

\* Mutant: the loop without the test of action.type.
actionForAnyType(onAction, type, fallback) ==
    IF onAction = <<>> THEN fallback
    ELSE toReferentialAction(onAction[Len(onAction)].value, fallback)

\* The on_action loop: the last "on delete" / "on update" action decides
RECURSIVE actionFor(_, _, _)
actionFor(onAction, type, fallback) ==
    IF onAction = <<>> THEN fallback
    ELSE IF onAction[Len(onAction)].type = type
    THEN toReferentialAction(onAction[Len(onAction)].value, fallback)
    ELSE actionFor(SubSeq(onAction, 1, Len(onAction) - 1), type, fallback)

\* Mutant: a SERIAL-family type does not make the column non-nullable.
processDefinitionSerialNullable(table, def) ==
    IF def.resource = "column"
    THEN LET isSerial == toUpperCase(def.dataType) \in SERIAL_TYPES
             field == FieldContract(def.column, normalizeType(def.dataType),
                          /\ def.nullable # Some("not null")
                          /\ def.primary_key = Null,
                          def.default_val # Null \/ isSerial)
             withField == [table EXCEPT !.fields = Append(@, field)]
         IN  IF def.unique # Null
             THEN [withField EXCEPT !.uniqueConstraints =
                                        Append(@, UniqueConstraint(Null, <<def.column>>))]
             ELSE withField
    ELSE LET ctype == toLowerCase(def.constraint_type)
         IN  IF ctype = "primary key"
             THEN [table EXCEPT !.primaryKey = Some(PrimaryKeyConstraint(def.definition))]
             ELSE IF ctype = "unique"
             THEN [table EXCEPT !.uniqueConstraints =
                                    Append(@, UniqueConstraint(def.constraint, def.definition))]
             ELSE IF ctype = "foreign key" /\ def.reference_definition # Null
             THEN LET ref == def.reference_definition[1]
                  IN  [table EXCEPT !.foreignKeys =
                          Append(@, ForeignKeyConstraint(def.definition, ref.table,
                                        ref.definition,
                                        actionFor(ref.on_action, "on delete", DEFAULT_ON_DELETE),
                                        actionFor(ref.on_action, "on update", DEFAULT_ON_UPDATE)))]
             ELSE table

\* One iteration of the loop over create_definitions
processDefinition(table, def) ==
    IF def.resource = "column"
    THEN LET isSerial == toUpperCase(def.dataType) \in SERIAL_TYPES
             field == FieldContract(def.column, normalizeType(def.dataType),
                          /\ def.nullable # Some("not null")
                          /\ def.primary_key = Null
                          /\ ~isSerial,
                          def.default_val # Null \/ isSerial)
             withField == [table EXCEPT !.fields = Append(@, field)]
         IN  IF def.unique # Null
             THEN [withField EXCEPT !.uniqueConstraints =
                                        Append(@, UniqueConstraint(Null, <<def.column>>))]
             ELSE withField
    ELSE LET ctype == toLowerCase(def.constraint_type)
         IN  IF ctype = "primary key"
             THEN [table EXCEPT !.primaryKey = Some(PrimaryKeyConstraint(def.definition))]
             ELSE IF ctype = "unique"
             THEN [table EXCEPT !.uniqueConstraints =
                                    Append(@, UniqueConstraint(def.constraint, def.definition))]
             ELSE IF ctype = "foreign key" /\ def.reference_definition # Null
             THEN LET ref == def.reference_definition[1]
                  IN  [table EXCEPT !.foreignKeys =
                          Append(@, ForeignKeyConstraint(def.definition, ref.table,
                                        ref.definition,
                                        actionFor(ref.on_action, "on delete", DEFAULT_ON_DELETE),
                                        actionFor(ref.on_action, "on update", DEFAULT_ON_UPDATE)))]
             ELSE table

RECURSIVE processDefinitions(_, _)
processDefinitions(table, defs) ==
    IF defs = <<>> THEN table
    ELSE processDefinitions(processDefinition(table, Head(defs)), Tail(defs))

\* inlinePkFields after the loop
inlinePkFieldsOf(defs) ==
    LET IsInlinePk(def) == def.resource = "column" /\ def.primary_key # Null
        inlinePkDefs == Filter(IsInlinePk, defs)
    IN  [i \in 1..Len(inlinePkDefs) |-> inlinePkDefs[i].column]

\* Mutant: the inline primary key is set without testing table.primaryKey.
processCreateTableInlineWins(tableMap, stmt) ==
    LET ensured == ensureTable(tableMap, stmt.table)
        at == tablePosition(ensured, stmt.table)
        table == processDefinitions(ensured[at], stmt.create_definitions)
        inlinePkFields == inlinePkFieldsOf(stmt.create_definitions)
    IN  [ensured EXCEPT ![at] =
            IF Len(inlinePkFields) > 0
            THEN [table EXCEPT !.primaryKey = Some(PrimaryKeyConstraint(inlinePkFields))]
            ELSE table]

processCreateTable(tableMap, stmt) ==
    LET ensured == ensureTable(tableMap, stmt.table)
        at == tablePosition(ensured, stmt.table)
        table == processDefinitions(ensured[at], stmt.create_definitions)
        inlinePkFields == inlinePkFieldsOf(stmt.create_definitions)
    IN  [ensured EXCEPT ![at] =
            IF table.primaryKey = Null /\ Len(inlinePkFields) > 0
            THEN [table EXCEPT !.primaryKey = Some(PrimaryKeyConstraint(inlinePkFields))]
            ELSE table]

\* Mutant: every index recorded as a plain index, whatever its index_type.
processCreateIndexAlwaysPlain(tableMap, stmt) ==
    LET ensured == ensureTable(tableMap, stmt.table)
        at == tablePosition(ensured, stmt.table)
    IN  [ensured EXCEPT ![at] =
            [@ EXCEPT !.indexes =
                          Append(@, IndexConstraint(Some(stmt.index), stmt.index_columns))]]

processCreateIndex(tableMap, stmt) ==
    LET ensured == ensureTable(tableMap, stmt.table)
        at == tablePosition(ensured, stmt.table)
    IN  [ensured EXCEPT ![at] =
            IF stmt.index_type = Some("unique")
            THEN [@ EXCEPT !.uniqueConstraints =
                              Append(@, UniqueConstraint(Some(stmt.index), stmt.index_columns))]
            ELSE [@ EXCEPT !.indexes =
                              Append(@, IndexConstraint(Some(stmt.index), stmt.index_columns))]]

\* One iteration of the loop over rawStatements
processStatement(tableMap, stmt) ==
    IF stmt.type # "create" THEN tableMap
    ELSE IF stmt.keyword = "table" THEN processCreateTable(tableMap, stmt)
    ELSE IF stmt.keyword = "index" THEN processCreateIndex(tableMap, stmt)
    ELSE tableMap

RECURSIVE processStatements(_, _)
processStatements(tableMap, stmts) ==
    IF stmts = <<>> THEN tableMap
    ELSE processStatements(processStatement(tableMap, Head(stmts)), Tail(stmts))

\* A table of the Map as a ModelContract
sortedModel(t) ==
    [name |-> t.name,
     fields |-> sortByName(t.fields),
     primaryKey |-> t.primaryKey,
     uniqueConstraints |-> sortByFieldList(t.uniqueConstraints),
     indexes |-> sortByFieldList(t.indexes),
     foreignKeys |-> sortByFieldList(t.foreignKeys)]

parseSqlString(stmts) ==
    LET tableMap == processStatements(<<>>, stmts)
    IN  sortByName([i \in 1..Len(tableMap) |-> sortedModel(tableMap[i])])

(***************************************************************************)
(* Universe of parseSqlString: (a) one CREATE TABLE "Post" whose           *)
(* definitions are distinct members of a pool, in any order; (b) any       *)
(* sequence of statements of a fixed list (tables created once or twice,   *)
(* indexes, an index on a table never created, ALTER TABLE); (c) a         *)
(* "Parent" and a "Child" table whose foreign key carries any list of      *)
(* referential actions.                                                    *)
(***************************************************************************)
DefinitionPool ==
    {AstColumnDef("id", "SERIAL", Null, Null, Some("primary key"), Null),
     AstColumnDef("authorId", "INT", Some("not null"), Null, Null, Null),
     AstColumnDef("email", "text", Null, Null, Null, Some("unique")),
     AstColumnDef("orgId", "BIGINT", Null, Some("default"), Some("primary key"), Null),
     AstConstraintDef(Null, "primary key", <<"authorId", "id">>, Null),
     AstConstraintDef(Some("pk_email"), "PRIMARY KEY", <<"email">>, Null),
     AstConstraintDef(Some("uq_email_author"), "UNIQUE", <<"email", "authorId">>, Null),
     AstConstraintDef(Null, "unique", <<"authorId">>, Null),
     AstConstraintDef(Some("fk_author"), "FOREIGN KEY", <<"authorId">>,
         Some(AstReference("User", <<"id">>, <<>>))),
     AstConstraintDef(Some("fk_org"), "foreign key", <<"orgId", "authorId">>,
         Some(AstReference("Ghost", <<"id", "x">>,
                  <<AstOnAction("on delete", Some("cascade"))>>)))}

PoolTables ==
    {<<AstCreateTable("Post", defs)>> :
        defs \in {d \in SeqsBetween(DefinitionPool, 1, MaxDefs) :
                     \A i, j \in 1..Len(d) : i # j => d[i] # d[j]}}

SqlStatements ==
    {AstCreateTable("User",
         <<AstColumnDef("id", "SERIAL", Null, Null, Some("primary key"), Null),
           AstColumnDef("email", "TEXT", Some("not null"), Null, Null, Null)>>),
     AstCreateTable("Post",
         <<AstColumnDef("title", "text", Null, Null, Null, Null),
           AstColumnDef("id", "INT", Null, Null, Some("primary key"), Null),
           AstConstraintDef(Null, "primary key", <<"id">>, Null)>>),
     AstCreateTable("Post",
         <<AstColumnDef("authorId", "INT", Some("not null"), Null, Null, Null),
           AstConstraintDef(Some("fk_author"), "FOREIGN KEY", <<"authorId">>,
               Some(AstReference("User", <<"id">>, <<>>)))>>),
     AstCreateIndex(Null, "idx_post_author", "Post", <<"authorId">>),
     AstCreateIndex(Null, "idx_post_author_id", "Post", <<"authorId", "id">>),
     AstCreateIndex(Some("unique"), "idx_user_email", "User", <<"email">>),
     AstCreateIndex(Some("unique"), "idx_post_id", "Post", <<"id">>),
     AstCreateIndex(Null, "idx_ghost", "Ghost", <<"x">>),
     AstAlterTable("Post",
         AstConstraintDef(Some("fk_author"), "FOREIGN KEY", <<"authorId">>,
             Some(AstReference("User", <<"id">>, <<>>)))),
     AstAlterTable("User", AstConstraintDef(Some("uq_email"), "UNIQUE", <<"email">>, Null)),
     AstAlterTable("Post", AstConstraintDef(Null, "PRIMARY KEY", <<"id">>, Null))}

ActionValues == {"cascade", "RESTRICT", "no action", "set null", "Set Default"}

OnActions ==
    {AstOnAction(t, Some(v)) : t \in {"on delete", "on update"}, v \in ActionValues}

ChildTables ==
    {<<AstCreateTable("Parent",
           <<AstColumnDef("id", "SERIAL", Null, Null, Some("primary key"), Null)>>),
       AstCreateTable("Child",
           <<AstColumnDef("parentId", "INT", Null, Null, Null, Null),
             AstConstraintDef(Some("fk_parent"), "FOREIGN KEY", <<"parentId">>,
                 Some(AstReference("Parent", <<"id">>, onAction))),
             AstColumnDef("seq", "serial", Null, Null, Null, Null)>>)>> :
        onAction \in SeqsBetween(OnActions, 0, MaxActions)}

SqlTexts == PoolTables \cup SeqsBetween(SqlStatements, 0, MaxStmts) \cup ChildTables

InitSql ==
    /\ sql \in SqlTexts
    /\ contract = <<>>
    /\ fds = <<>>
    /\ invariants = <<>>
    /\ options = NoOptions
    /\ invariantsFile = NoFile
    /\ pc = "ready"
    /\ findings = <<>>
    /\ metadata = Null
    /\ calls = <<>>

CallParseSqlString ==
    /\ pc = "ready"
    /\ pc' = "parseSqlString"
    /\ contract' = parseSqlString(sql)
    /\ UNCHANGED <<fds, invariants, options, findings, metadata, invariantsFile, sql, calls>>

NextSql == CallParseSqlString

SpecSql == InitSql /\ [][NextSql]_vars

(***************************************************************************)
(* C17                                                                     *)
(***************************************************************************)
\* No key of the list is smaller than the key before it
Ascending(keys) == \A i \in 1..(Len(keys) - 1) : ~CodeLess(keys[i + 1], keys[i])

NameKeys(s) == [i \in 1..Len(s) |-> CodeUnits[s[i].name]]

FieldListKeys(s) == [i \in 1..Len(s) |-> JoinedCodeUnits(s[i].fields)]

\* C17: in the contract parseSqlString returns, the models are sorted by
\* name, each model's fields by name, and each model's unique constraints,
\* indexes and foreign keys by their comma-joined field list, whatever the
\* order of the statements and definitions.
C17_ContractIsSorted ==
    pc = "parseSqlString" =>
        /\ Ascending(NameKeys(contract))
        /\ \A i \in 1..Len(contract) :
              /\ Ascending(NameKeys(contract[i].fields))
              /\ Ascending(FieldListKeys(contract[i].uniqueConstraints))
              /\ Ascending(FieldListKeys(contract[i].indexes))
              /\ Ascending(FieldListKeys(contract[i].foreignKeys))

\* A contract was returned for a text that declares its tables, the columns
\* of a table and the indexes of a table out of order.
C17_Witness ==
    /\ pc = "parseSqlString"
    /\ ~Ascending(NameKeys(processStatements(<<>>, sql)))
    /\ \E i \in 1..Len(processStatements(<<>>, sql)) :
          ~Ascending(NameKeys(processStatements(<<>>, sql)[i].fields))
    /\ \E i \in 1..Len(processStatements(<<>>, sql)) :
          ~Ascending(FieldListKeys(processStatements(<<>>, sql)[i].indexes))

(***************************************************************************)
(* C18                                                                     *)
(***************************************************************************)
\* The tables named by the CREATE TABLE and CREATE INDEX statements
CreatedTables(stmts) ==
    {stmts[i].table : i \in {k \in 1..Len(stmts) : stmts[k].type = "create"}}

\* C18: after any sequence of CREATE TABLE and CREATE INDEX statements
\* (several naming the same table, an index on a table never created) the
\* contract has exactly one model per distinct table name.
C18_OneModelPerTableName ==
    pc = "parseSqlString" =>
        /\ \A i, j \in 1..Len(contract) : contract[i].name = contract[j].name => i = j
        /\ {contract[i].name : i \in 1..Len(contract)} = CreatedTables(sql)

\* A contract was returned for a text with two CREATE TABLE statements for
\* one table and an index on a table that has no CREATE TABLE.
C18_Witness ==
    /\ pc = "parseSqlString"
    /\ \E i, j \in 1..Len(sql) :
          /\ i # j
          /\ sql[i].type = "create" /\ sql[i].keyword = "table"
          /\ sql[j].type = "create" /\ sql[j].keyword = "table"
          /\ sql[i].table = sql[j].table
    /\ \E i \in 1..Len(sql) :
          /\ sql[i].type = "create" /\ sql[i].keyword = "index"
          /\ \A j \in 1..Len(sql) : sql[j].keyword = "table" => sql[j].table # sql[i].table
    /\ Len(contract) = 2

(***************************************************************************)
(* C19                                                                     *)
(***************************************************************************)
IsAlter(stmt) == stmt.type = "alter"

IsCreateTable(stmt) == stmt.type = "create" /\ stmt.keyword = "table"

\* The constraints that the ALTER TABLE statements of the text add to a table
AddedConstraints(stmts, table) ==
    LET Adds(stmt) == IF IsAlter(stmt) /\ stmt.table = table THEN stmt.expr ELSE <<>>
    IN  FlatMap(Adds, stmts)

\* The text with every added constraint declared inside the CREATE TABLE of
\* its table instead, and no ALTER TABLE statement
WithAltersInlined(stmts) ==
    LET Inlined(stmt) ==
            IF IsAlter(stmt) THEN <<>>
            ELSE IF IsCreateTable(stmt)
            THEN <<[stmt EXCEPT !.create_definitions =
                                    @ \o AddedConstraints(stmts, stmt.table)]>>
            ELSE <<stmt>>
    IN  FlatMap(Inlined, stmts)

\* Every ALTER TABLE of the text alters a table that the text creates once
AltersCreatedTables(stmts) ==
    \A i \in 1..Len(stmts) :
        IsAlter(stmts[i]) =>
            Cardinality({k \in 1..Len(stmts) :
                            IsCreateTable(stmts[k]) /\ stmts[k].table = stmts[i].table}) = 1

\* C19 as claimed: a primary key, unique constraint or foreign key added by
\* ALTER TABLE ... ADD CONSTRAINT appears in the contract of the altered
\* table exactly as if it had been declared inside that table's CREATE TABLE.
C19_AlterTableAddConstraintHandled ==
    (pc = "parseSqlString" /\ AltersCreatedTables(sql)) =>
        contract = parseSqlString(WithAltersInlined(sql))

\* The case C19 fails on: a contract was returned for a text that creates a
\* table and then adds a unique constraint to it with ALTER TABLE.
C19_AlterAfterCreateCase ==
    /\ pc = "parseSqlString"
    /\ Len(sql) = 2
    /\ IsCreateTable(sql[1])
    /\ IsAlter(sql[2])
    /\ sql[2].table = sql[1].table
    /\ toLowerCase(sql[2].expr[1].constraint_type) = "unique"

(***************************************************************************)
(* C20                                                                     *)
(***************************************************************************)
ReferentialActions == {"Cascade", "Restrict", "NoAction", "SetNull", "SetDefault"}

\* The action that each spelling of the universe names
ActionNamed ==
    ("cascade" :> "Cascade") @@ ("RESTRICT" :> "Restrict") @@ ("no action" :> "NoAction")
        @@ ("set null" :> "SetNull") @@ ("Set Default" :> "SetDefault")

\* action is NoAction when the list has no clause of the type, and otherwise
\* an action that a clause of the type names
ClauseAgrees(onAction, type, action) ==
    LET named == {ActionNamed[onAction[i].value[1]] :
                     i \in {k \in 1..Len(onAction) : onAction[k].type = type}}
    IN  IF named = {} THEN action = "NoAction" ELSE action \in named

IsForeignKeyDef(def) ==
    /\ def.resource = "constraint"
    /\ toLowerCase(def.constraint_type) = "foreign key"
    /\ def.reference_definition # Null

\* C20: every foreign key of a parsed contract has onDelete and onUpdate
\* among Cascade, Restrict, NoAction, SetNull, SetDefault; each is NoAction
\* when its ON DELETE / ON UPDATE clause is omitted and otherwise the action
\* the clause names, independently for delete and update.
C20_ReferentialActions ==
    pc = "parseSqlString" =>
        /\ \A i \in 1..Len(contract) :
              \A k \in 1..Len(contract[i].foreignKeys) :
                  /\ contract[i].foreignKeys[k].onDelete \in ReferentialActions
                  /\ contract[i].foreignKeys[k].onUpdate \in ReferentialActions
        /\ \A s \in {n \in 1..Len(sql) : IsCreateTable(sql[n])} :
              \A d \in {n \in 1..Len(sql[s].create_definitions) :
                           IsForeignKeyDef(sql[s].create_definitions[n])} :
                  LET def == sql[s].create_definitions[d]
                      ref == def.reference_definition[1]
                  IN  \E i \in 1..Len(contract) :
                          /\ contract[i].name = sql[s].table
                          /\ \E k \in 1..Len(contract[i].foreignKeys) :
                                LET fk == contract[i].foreignKeys[k]
                                IN  /\ fk.fields = def.definition
                                    /\ fk.referencedModel = ref.table
                                    /\ ClauseAgrees(ref.on_action, "on delete", fk.onDelete)
                                    /\ ClauseAgrees(ref.on_action, "on update", fk.onUpdate)

\* A contract was returned for a foreign key declared with ON UPDATE SET NULL
\* and no ON DELETE clause.
C20_Witness ==
    /\ pc = "parseSqlString"
    /\ \E i \in 1..Len(contract) :
          /\ contract[i].name = "Child"
          /\ Len(contract[i].foreignKeys) = 1
          /\ contract[i].foreignKeys[1].onDelete = "NoAction"
          /\ contract[i].foreignKeys[1].onUpdate = "SetNull"
    /\ Len(sql[2].create_definitions[2].reference_definition[1].on_action) = 1

(***************************************************************************)
(* A parsed ModelContract as the checks read it: the names and types of    *)
(* its fields and the field lists of its constraints.                      *)
(***************************************************************************)
checkedModel(m) ==
    Model(m.name,
          [i \in 1..Len(m.fields) |-> Field(m.fields[i].name, m.fields[i].type)],
          IF m.primaryKey = Null THEN Null ELSE Some(m.primaryKey[1].fields),
          [i \in 1..Len(m.uniqueConstraints) |-> m.uniqueConstraints[i].fields],
          [i \in 1..Len(m.indexes) |-> m.indexes[i].fields],
          [i \in 1..Len(m.foreignKeys) |->
              ForeignKey(m.foreignKeys[i].fields, m.foreignKeys[i].referencedModel,
                         m.foreignKeys[i].referencedFields)])

checkedContract(c) == [i \in 1..Len(c) |-> checkedModel(c[i])]

(***************************************************************************)
(* C21                                                                     *)
(***************************************************************************)
IsCreateIndex(stmt) == stmt.type = "create" /\ stmt.keyword = "index"

IsUniqueIndex(stmt) == IsCreateIndex(stmt) /\ stmt.index_type = Some("unique")

IsPlainIndex(stmt) == IsCreateIndex(stmt) /\ stmt.index_type # Some("unique")

\* The unique constraints that the definitions of a CREATE TABLE declare
DeclaredUniques(stmt) ==
    LET IsUnique(def) ==
            \/ def.resource = "column" /\ def.unique # Null
            \/ def.resource = "constraint" /\ toLowerCase(def.constraint_type) = "unique"
    IN  IF IsCreateTable(stmt) THEN Len(Filter(IsUnique, stmt.create_definitions)) ELSE 0

RECURSIVE SumOver(_)
SumOver(counts) == IF counts = <<>> THEN 0 ELSE Head(counts) + SumOver(Tail(counts))

\* C21: CREATE UNIQUE INDEX adds a unique constraint named after the index
\* (isComposite = more than one column) and no entry in indexes; a plain
\* CREATE INDEX adds an entry in indexes and no unique constraint.  So a plain
\* index covers a foreign key for FK_MISSING_INDEX, and it yields no
\* candidate key.
C21_UniqueIndexVersusPlainIndex ==
    pc = "parseSqlString" =>
        \A i \in 1..Len(contract) :
            LET m == contract[i]
                OnTable(stmt) == stmt.table = m.name
                Unique(stmt) == IsUniqueIndex(stmt) /\ OnTable(stmt)
                Plain(stmt) == IsPlainIndex(stmt) /\ OnTable(stmt)
                declared == [n \in 1..Len(sql) |->
                                IF OnTable(sql[n]) THEN DeclaredUniques(sql[n]) ELSE 0]
                keys == extractCandidateKeys(checkedContract(contract), m.name)
                fkFindings == checkFkIndexes(checkedContract(contract))
            IN  /\ Len(m.indexes) = Count(Plain, sql)
                /\ Len(m.uniqueConstraints) = Count(Unique, sql) + SumOver(declared)
                /\ \A n \in 1..Len(sql) :
                      /\ Unique(sql[n]) =>
                            \E k \in 1..Len(m.uniqueConstraints) :
                                m.uniqueConstraints[k] =
                                    [name |-> Some(sql[n].index),
                                     fields |-> sql[n].index_columns,
                                     isComposite |-> Len(sql[n].index_columns) > 1]
                      /\ Plain(sql[n]) =>
                            /\ \E k \in 1..Len(m.indexes) :
                                  m.indexes[k] = [name |-> Some(sql[n].index),
                                                  fields |-> sql[n].index_columns]
                            /\ \A k \in 1..Len(m.foreignKeys) :
                                  IsPrefixOf(m.foreignKeys[k].fields, sql[n].index_columns) =>
                                      \A f \in 1..Len(fkFindings) :
                                          ~(/\ fkFindings[f].model = m.name
                                            /\ fkFindings[f].field = Some(m.foreignKeys[k].fields[1]))
                /\ Len(keys) = (IF m.primaryKey = Null THEN 0 ELSE 1) + Len(m.uniqueConstraints)

\* A contract was returned for a text that declares a foreign key, a plain
\* index covering it and a unique index.
C21_Witness ==
    /\ pc = "parseSqlString"
    /\ \E n \in 1..Len(sql) : IsUniqueIndex(sql[n])
    /\ \E i \in 1..Len(contract) :
          /\ Len(contract[i].foreignKeys) = 1
          /\ Len(contract[i].indexes) = 1
          /\ contract[i].indexes[1].fields = contract[i].foreignKeys[1].fields
          /\ contract[i].primaryKey = Null
          /\ contract[i].uniqueConstraints = <<>>
          /\ checkFkIndexes(checkedContract(contract)) = <<>>

(***************************************************************************)
(* C22                                                                     *)
(***************************************************************************)
\* C22: in every AuditResult, metadata.findingCount is the length of
\* findings, metadata.modelCount the number of models of the contract,
\* metadata.schemaPath the audited path, and metadata.timestamp is null
\* exactly when no timestamp was requested.
C22_MetadataMatchesResult ==
    pc = "audit" =>
        /\ metadata # Null
        /\ metadata[1].findingCount = Len(findings)
        /\ metadata[1].modelCount = Len(contract)
        /\ metadata[1].schemaPath = options.schemaPath
        /\ (metadata[1].timestamp = Null) <=> options.noTimestamp
        /\ metadata[1].timestamp # Null => metadata[1].timestamp[1] \in Timestamps

\* An audit of the second path returned a timestamped result whose number of
\* findings differs from its number of models.
C22_Witness ==
    /\ pc = "audit"
    /\ options.schemaPath = "prisma/other.prisma"
    /\ ~options.noTimestamp
    /\ Len(findings) > Len(contract)
    /\ metadata[1].timestamp # Null

C24_FkMissingIndexIsWarning ==
    pc = "checkFkIndexes" =>
        \A i \in 1..Len(findings) :
            findings[i].rule = "FK_MISSING_INDEX" => findings[i].severity = "warning"

\* checkFkIndexes returned a finding for an uncovered single-field foreign key.
C24_UncoveredFkCase ==
    /\ pc = "checkFkIndexes"
    /\ Len(contract) = 1
    /\ \E j \in 1..Len(contract[1].foreignKeys) :
          /\ FkUncovered(contract[1], contract[1].foreignKeys[j])
          /\ Len(contract[1].foreignKeys[j].fields) = 1
    /\ \E i \in 1..Len(findings) :
          findings[i].rule = "FK_MISSING_INDEX" /\ findings[i].field # Null

(***************************************************************************)
(* The checks run one after another on the same arguments: any of          *)
(* checkFkIndexes, check2nf, checkSoftDelete, invariantsToFds and          *)
(* validateInvariantsAgainstContract, in any order, up to MaxCalls calls.  *)
(* Each function only reads its arguments and pushes onto an array it      *)
(* created, so a call leaves contract, fds and invariants as they were.    *)
(***************************************************************************)
CallReturned(check, result) == [check |-> check, result |-> result]

FramePost ==
    Model("Post", PostFields, Some(<<"id">>), <<>>, <<>>,
          <<ForeignKey(<<"authorId">>, "User", <<"id">>)>>)

FrameEnrollment ==
    Model("Enrollment",
          <<Field("courseId", "Int"), Field("grade", "String"), Field("studentId", "Int")>>,
          Some(<<"studentId", "courseId">>), <<>>, <<>>,
          <<ForeignKey(<<"studentId">>, "Student", <<"id">>),
            ForeignKey(<<"courseId">>, "Course", <<"id">>)>>)

FrameUser ==
    Model("User", UserFields \o <<Field("deleted_at", "DateTime")>>, Some(<<"id">>),
          <<<<"email">>>>, <<>>, <<>>)

FrameModels == {FramePost, FrameEnrollment, FrameUser}

FrameContracts ==
    {c \in SeqsBetween(FrameModels, 0, 2) : \A i, j \in 1..Len(c) : i # j => c[i] # c[j]}

FrameFds ==
    {FunctionalDependency("Enrollment", <<"studentId">>, <<"Student.id">>, "fk"),
     FunctionalDependency("User", <<"email">>, <<"name">>, "invariant")}

FrameInvariants ==
    {<<>>,
     <<InvariantsEntry("User", Some(<<InvariantFd(<<"email">>, <<"ghost">>)>>))>>,
     <<InvariantsEntry("NonExistentModel", Null)>>,
     <<InvariantsEntry("NonExistentModel", Some(<<>>)),
       InvariantsEntry("User", Some(<<InvariantFd(<<"name">>, <<"email">>)>>))>>}

InitFrame ==
    /\ contract \in FrameContracts
    /\ fds \in SeqsBetween(FrameFds, 0, 1)
    /\ invariants \in FrameInvariants
    /\ options = NoOptions
    /\ invariantsFile = NoFile
    /\ sql = <<>>
    /\ pc = "ready"
    /\ findings = <<>>
    /\ metadata = Null
    /\ calls = <<>>

AgainCheckFkIndexes ==
    /\ Len(calls) < MaxCalls
    /\ pc' = "checkFkIndexes"
    /\ findings' = checkFkIndexes(contract)
    /\ calls' = Append(calls, CallReturned("checkFkIndexes", findings'))
    /\ UNCHANGED <<contract, fds, invariants, options, metadata, invariantsFile, sql>>

\* Mutant: check2nf drains the FD list it was given.
AgainCheck2nfDrainingFds ==
    /\ Len(calls) < MaxCalls
    /\ pc' = "check2nf"
    /\ findings' = check2nf(contract, fds)
    /\ calls' = Append(calls, CallReturned("check2nf", findings'))
    /\ fds' = <<>>
    /\ UNCHANGED <<contract, invariants, options, metadata, invariantsFile, sql>>

AgainCheck2nf ==
    /\ Len(calls) < MaxCalls
    /\ pc' = "check2nf"
    /\ findings' = check2nf(contract, fds)
    /\ calls' = Append(calls, CallReturned("check2nf", findings'))
    /\ UNCHANGED <<contract, fds, invariants, options, metadata, invariantsFile, sql>>

AgainCheckSoftDelete ==
    /\ Len(calls) < MaxCalls
    /\ pc' = "checkSoftDelete"
    /\ findings' = checkSoftDelete(contract)
    /\ calls' = Append(calls, CallReturned("checkSoftDelete", findings'))
    /\ UNCHANGED <<contract, fds, invariants, options, metadata, invariantsFile, sql>>

AgainInvariantsToFds ==
    /\ Len(calls) < MaxCalls
    /\ pc' = "invariantsToFds"
    /\ calls' = Append(calls, CallReturned("invariantsToFds", invariantsToFds(invariants)))
    /\ UNCHANGED <<contract, fds, invariants, options, findings, metadata, invariantsFile,
                   sql>>

AgainValidateInvariants ==
    /\ Len(calls) < MaxCalls
    /\ pc' = "validateInvariantsAgainstContract"
    /\ findings' = validateInvariantsAgainstContract(invariants, contract)
    /\ calls' = Append(calls, CallReturned("validateInvariantsAgainstContract", findings'))
    /\ UNCHANGED <<contract, fds, invariants, options, metadata, invariantsFile, sql>>

NextFrame ==
    \/ AgainCheckFkIndexes
    \/ AgainCheck2nf
    \/ AgainCheckSoftDelete
    \/ AgainInvariantsToFds
    \/ AgainValidateInvariants

SpecFrame == InitFrame /\ [][NextFrame]_vars

(***************************************************************************)
(* C25                                                                     *)
(***************************************************************************)
\* What a check returns on the arguments as they are now
ResultNow(check) ==
    CASE check = "checkFkIndexes" -> checkFkIndexes(contract)
      [] check = "check2nf" -> check2nf(contract, fds)
      [] check = "checkSoftDelete" -> checkSoftDelete(contract)
      [] check = "invariantsToFds" -> invariantsToFds(invariants)
      [] check = "validateInvariantsAgainstContract" ->
            validateInvariantsAgainstContract(invariants, contract)

Nf2InvariantFds ==
    UNION {SetOf(invariantsToFds(
                    <<InvariantsEntry("Enrollment", Some(<<InvariantFd(det, dep)>>))>>)) :
            det \in {<<"studentId">>, <<"courseId">>, <<"studentId", "courseId">>},
            dep \in {<<"grade">>}}

\* C26: the 2NF findings do not depend on the invariants file: check2nf
\* returns the same finding list for an FD list and for that list followed by
\* any list of invariant-sourced FDs.
C26_Check2nfIgnoresInvariantFds ==
    pc = "check2nf" =>
        \A extra \in SeqsBetween(Nf2InvariantFds, 0, 2) :
            check2nf(contract, fds \o extra) = findings

\* check2nf reported a partial dependency for a join table that has a non-key
\* field, from a list that also holds an invariant-sourced FD whose
\* determinant is a proper subset of the primary key.
C26_Witness ==
    /\ pc = "check2nf"
    /\ HasCompositePk(contract[1])
    /\ HasFieldOutsidePk(contract[1])
    /\ Count(IsPartial, findings) = 1
    /\ Len(fds) = 2
    /\ \E i \in 1..Len(fds) :
          /\ fds[i].source = "invariant"
          /\ fds[i].model = contract[1].name
          /\ fds[i].determinant = <<"studentId">>

(***************************************************************************)
(* C27                                                                     *)
(***************************************************************************)
\* The distinct names of determinant and dependent that m has no field for
MissingNames(m, fd) ==
    {n \in SetOf(fd.determinant) \cup SetOf(fd.dependent) : ~HasField(m, n)}

IsUnknownField(f) == f.rule = "INVARIANT_UNKNOWN_FIELD"

\* C27: de-duplication of unknown fields is per declared FD only: for a model
\* present in the contract, the number of INVARIANT_UNKNOWN_FIELD findings is
\* the sum, over its declared FDs, of the number of distinct names in
\* determinant and dependent that are not fields of the model.
C27_UnknownFieldCountIsSumOverFds ==
    pc = "validateInvariantsAgainstContract" =>
        \A e \in 1..Len(invariants) :
            LET entry == invariants[e]
                m == ModelNamed(contract, entry.modelName)
                OfModel(f) == IsUnknownField(f) /\ f.model = entry.modelName
                declared == DeclaredOf(entry)
            IN  IsKnownModel(contract, entry.modelName) =>
                    Count(OfModel, findings) =
                        SumOver([i \in 1..Len(declared) |->
                                    Cardinality(MissingNames(m, declared[i]))])

\* One missing field, ghost, referenced by two declared FDs of User: two
\* findings, both naming ghost.
C27_Witness ==
    /\ pc = "validateInvariantsAgainstContract"
    /\ contract # <<>>
    /\ Len(invariants) = 1
    /\ invariants[1].modelName = "User"
    /\ Len(DeclaredOf(invariants[1])) = 2
    /\ \A i \in 1..2 : MissingNames(contract[1], DeclaredOf(invariants[1])[i]) = {"ghost"}
    /\ Len(findings) = 2
    /\ \A i \in 1..2 : IsUnknownField(findings[i]) /\ findings[i].field = Some("ghost")

(***************************************************************************)
(* C28                                                                     *)
(***************************************************************************)
IsTablePk(def) ==
    def.resource = "constraint" /\ toLowerCase(def.constraint_type) = "primary key"

IsInlinePkColumn(def) == def.resource = "column" /\ def.primary_key # Null

TablePks(stmt) == Filter(IsTablePk, stmt.create_definitions)

InlinePkColumns(stmt) == Filter(IsInlinePkColumn, stmt.create_definitions)

\* The CREATE TABLE statements of the text that name the table
CreatesOf(stmts, table) ==
    LET Creates(stmt) == IsCreateTable(stmt) /\ stmt.table = table
    IN  Filter(Creates, stmts)

\* C28: for a table that one CREATE TABLE creates, the primary key is that of
\* the last table-level PRIMARY KEY constraint among the definitions, with its
\* fields in declared order, wherever the constraint stands; without such a
\* constraint it is the list of the columns carrying an inline PRIMARY KEY, in
\* column order; without either there is no primary key.
C28_TableLevelPrimaryKeyWins ==
    pc = "parseSqlString" =>
        \A k \in 1..Len(contract) :
            LET creates == CreatesOf(sql, contract[k].name)
                stmt == creates[1]
                tablePks == TablePks(stmt)
                inline == InlinePkColumns(stmt)
            IN  Len(creates) = 1 =>
                    contract[k].primaryKey =
                        IF tablePks # <<>>
                        THEN Some([fields |-> tablePks[Len(tablePks)].definition,
                                   isComposite |->
                                       Len(tablePks[Len(tablePks)].definition) > 1])
                        ELSE IF inline # <<>>
                        THEN Some([fields |-> [i \in 1..Len(inline) |-> inline[i].column],
                                   isComposite |-> Len(inline) > 1])
                        ELSE Null

\* A CREATE TABLE with a column carrying an inline PRIMARY KEY and two
\* table-level PRIMARY KEY constraints, the composite one first: the primary
\* key is the second constraint's.
C28_Witness ==
    /\ pc = "parseSqlString"
    /\ Len(sql) = 1
    /\ IsCreateTable(sql[1])
    /\ InlinePkColumns(sql[1]) # <<>>
    /\ Len(TablePks(sql[1])) = 2
    /\ Len(TablePks(sql[1])[1].definition) = 2
    /\ contract[1].primaryKey = Some([fields |-> <<"email">>, isComposite |-> FALSE])

(***************************************************************************)
(* C29                                                                     *)
(***************************************************************************)
IsColumn(def) == def.resource = "column"

\* The column definitions of the CREATE TABLE statements that name the table
ColumnsOf(stmts, table) ==
    LET Columns(stmt) == Filter(IsColumn, stmt.create_definitions)
    IN  FlatMap(Columns, CreatesOf(stmts, table))

IsSerialFamily(dataType) ==
    dataType \in {"SERIAL", "serial", "BIGSERIAL", "bigserial", "SMALLSERIAL", "smallserial"}

DeclaredNonNullable(def) ==
    \/ def.nullable = Some("not null")
    \/ def.primary_key # Null
    \/ IsSerialFamily(def.dataType)

DeclaredDefault(def) == def.default_val # Null \/ IsSerialFamily(def.dataType)

\* C29: the fields of a model are the columns of its CREATE TABLE statements;
\* a column is recorded non-nullable exactly when it is declared NOT NULL,
\* carries an inline PRIMARY KEY or has a SERIAL-family type, and with a
\* default exactly when it has a DEFAULT clause or a SERIAL-family type.
\* Membership in a table-level PRIMARY KEY plays no part.
C29_NullabilityAndDefaults ==
    pc = "parseSqlString" =>
        \A k \in 1..Len(contract) :
            LET columns == ColumnsOf(sql, contract[k].name)
                fields == contract[k].fields
            IN  /\ Len(fields) = Len(columns)
                /\ \A c \in 1..Len(columns) :
                      LET Records(f) ==
                              /\ f.name = columns[c].column
                              /\ f.isNullable = ~DeclaredNonNullable(columns[c])
                              /\ f.hasDefault = DeclaredDefault(columns[c])
                          Named(f) == f.name = columns[c].column
                          SameName(d) == d.column = columns[c].column
                          SameColumn(d) ==
                              /\ SameName(d)
                              /\ DeclaredNonNullable(d) = DeclaredNonNullable(columns[c])
                              /\ DeclaredDefault(d) = DeclaredDefault(columns[c])
                      IN  /\ Count(Named, fields) = Count(SameName, columns)
                          /\ Count(Records, fields) = Count(SameColumn, columns)

\* The nullable column email is the table-level primary key and is recorded
\* nullable, next to a column that only its SERIAL type makes non-nullable.
C29_Witness ==
    /\ pc = "parseSqlString"
    /\ Len(sql) = 1
    /\ IsCreateTable(sql[1])
    /\ contract[1].primaryKey = Some([fields |-> <<"email">>, isComposite |-> FALSE])
    /\ \E i \in 1..Len(contract[1].fields) :
          /\ contract[1].fields[i].name = "email"
          /\ contract[1].fields[i].isNullable
          /\ ~contract[1].fields[i].hasDefault
    /\ \E i \in 1..Len(contract[1].fields) :
          /\ contract[1].fields[i].name = "authorId"
          /\ ~contract[1].fields[i].isNullable

\* A column without NOT NULL and without an inline PRIMARY KEY is recorded
\* non-nullable and with a default because its type is serial.
C29_SerialOnlyCase ==
    /\ pc = "parseSqlString"
    /\ \E k \in 1..Len(contract) : \E i \in 1..Len(contract[k].fields) :
          /\ contract[k].fields[i].name = "seq"
          /\ ~contract[k].fields[i].isNullable
          /\ contract[k].fields[i].hasDefault

(***************************************************************************)
(* The checks on contracts of two models, "Post" and "Comment" in either   *)
(* order: each model has up to MaxFks foreign keys on authorId and orgId,  *)
(* or is soft-deletable with up to MaxUq unique constraints, or (with an   *)
(* FD list of up to MaxFds fk-sourced FDs) is a composite-key model.       *)
(***************************************************************************)
OrderNames == {"Post", "Comment"}

OrderFks ==
    {ForeignKey(<<"authorId">>, "User", <<"id">>), ForeignKey(<<"orgId">>, "Org", <<"id">>)}

OrderFkModels(n) ==
    {Model(n, PostFields, Some(<<"id">>), <<>>, <<>>, fks) :
        fks \in SeqsBetween(OrderFks, 0, MaxFks)}

OrderSdModels(n) ==
    {Model(n, UserFields \o <<Field("deleted_at", "DateTime")>>, Some(<<"id">>), uqs,
           <<>>, <<>>) :
        uqs \in SeqsBetween({<<"email">>, <<"name">>, <<"email", "deleted_at">>}, 0, MaxUq)}

OrderNfModels(n) ==
    {Model(n, <<Field("courseId", "Int"), Field("grade", "String"),
                Field("studentId", "Int")>>,
           Some(<<"studentId", "courseId">>), <<>>, <<>>, fks) :
        fks \in {<<>>, <<ForeignKey(<<"studentId">>, "Student", <<"id">>),
                        ForeignKey(<<"courseId">>, "Course", <<"id">>)>>}}

OrderNamePairs == {p \in OrderNames \X OrderNames : p[1] # p[2]}

OrderFds ==
    {FunctionalDependency(n, det, <<"Ref.id">>, "fk") :
        n \in OrderNames, det \in {<<"studentId">>, <<"courseId">>}}

InitOrder ==
    /\ \/ /\ \E p \in OrderNamePairs :
                \E a \in OrderFkModels(p[1]) \cup OrderSdModels(p[1]),
                   b \in OrderFkModels(p[2]) \cup OrderSdModels(p[2]) :
                    contract = <<a, b>>
          /\ fds = <<>>
       \/ /\ \E p \in OrderNamePairs :
                \E a \in OrderNfModels(p[1]), b \in OrderNfModels(p[2]) :
                    contract = <<a, b>>
          /\ fds \in SeqsBetween(OrderFds, 0, MaxFds)
    /\ invariants = <<>>
    /\ options = NoOptions
    /\ invariantsFile = NoFile
    /\ sql = <<>>
    /\ pc = "ready"
    /\ findings = <<>>
    /\ metadata = Null
    /\ calls = <<>>

NextOrder ==
    \/ CallCheckFkIndexes
    \/ CallCheck2nf
    \/ CallCheckSoftDelete

SpecOrder == InitOrder /\ [][NextOrder]_vars

(***************************************************************************)
(* C30                                                                     *)
(***************************************************************************)
\* The position in the contract of the model a finding names
ModelPosition(f) == CHOOSE k \in 1..Len(contract) : contract[k].name = f.model

\* The fix texts of the findings that name model m, in output order
FixesOf(m) ==
    LET OfModel(f) == f.model = m.name
        own == Filter(OfModel, findings)
    IN  [i \in 1..Len(own) |-> own[i].fix]

RulesOf(m) ==
    LET OfModel(f) == f.model = m.name
        own == Filter(OfModel, findings)
    IN  [i \in 1..Len(own) |-> own[i].rule]

FkFix(m, fk) ==
    Some("Add @@index([" \o Join(fk.fields, ", ") \o "]) to '" \o m.name
            \o "' for faster joins and cascade operations.")

PartialFix(fd) ==
    Some("Extract fields that depend on (" \o Join(fd.determinant, ", ")
            \o ") into their own model.")

SoftDeleteFix(uq) ==
    Some("Add 'deleted_at' to this unique constraint: @@unique([" \o Join(uq, ", ")
            \o ", deleted_at])")

\* C30: the findings of checkFkIndexes, check2nf and checkSoftDelete follow
\* the order of contract.models (a finding never names a model that comes
\* after the model of a later finding); within one model they follow the
\* order of its uncovered foreign keys (checkFkIndexes), of the qualifying FDs
\* of the FD list with the join-table finding after all partial-dependency
\* findings (check2nf), and of its unique constraints without the soft-delete
\* field (checkSoftDelete).
C30_FindingsFollowContractOrder ==
    pc \in {"checkFkIndexes", "check2nf", "checkSoftDelete"} =>
        /\ \A i, j \in 1..Len(findings) :
              i < j => ModelPosition(findings[i]) <= ModelPosition(findings[j])
        /\ \A k \in 1..Len(contract) :
              LET m == contract[k]
                  Unc(fk) == FkUncovered(m, fk)
                  uncovered == Filter(Unc, m.foreignKeys)
                  Qualifies(fd) ==
                      /\ fd.model = m.name
                      /\ fd.source = "fk"
                      /\ SetOf(fd.determinant) \subseteq PkSet(m)
                      /\ SetOf(fd.determinant) # PkSet(m)
                  qualifying == Filter(Qualifies, fds)
                  Lacks(uq) == ~Includes(uq, "deleted_at")
                  lacking == Filter(Lacks, m.uniqueConstraints)
                  rules == RulesOf(m)
                  partials == Cardinality({i \in 1..Len(rules) :
                                  rules[i] = "NF2_PARTIAL_DEPENDENCY_SUSPECTED"})
              IN  /\ pc = "checkFkIndexes" =>
                        FixesOf(m) = [i \in 1..Len(uncovered) |-> FkFix(m, uncovered[i])]
                  /\ pc = "check2nf" =>
                        /\ partials = Len(qualifying)
                        /\ \A i \in 1..Len(rules) :
                              IF i <= partials
                              THEN /\ rules[i] = "NF2_PARTIAL_DEPENDENCY_SUSPECTED"
                                   /\ FixesOf(m)[i] = PartialFix(qualifying[i])
                              ELSE /\ rules[i] = "NF2_JOIN_TABLE_DUPLICATED_ATTR_SUSPECTED"
                                   /\ i = Len(rules)
                  /\ pc = "checkSoftDelete" =>
                        FixesOf(m) = [i \in 1..Len(lacking) |-> SoftDeleteFix(lacking[i])]

\* check2nf returned, for the contract <<Post, Comment>>, two
\* partial-dependency findings and the join-table finding of Post followed by
\* the join-table finding of Comment.
C30_Witness ==
    /\ pc = "check2nf"
    /\ contract[1].name = "Post"
    /\ Len(findings) = 4
    /\ RulesOf(contract[1]) = <<"NF2_PARTIAL_DEPENDENCY_SUSPECTED",
                                "NF2_PARTIAL_DEPENDENCY_SUSPECTED",
                                "NF2_JOIN_TABLE_DUPLICATED_ATTR_SUSPECTED">>
    /\ FixesOf(contract[1])[1] # FixesOf(contract[1])[2]
    /\ RulesOf(contract[2]) = <<"NF2_JOIN_TABLE_DUPLICATED_ATTR_SUSPECTED">>

\* checkFkIndexes and checkSoftDelete returned two findings for the first
\* model and one for the second.
C30_TwoModelsCase ==
    /\ pc \in {"checkFkIndexes", "checkSoftDelete"}
    /\ Len(FixesOf(contract[1])) = 2
    /\ FixesOf(contract[1])[1] # FixesOf(contract[1])[2]
    /\ Len(FixesOf(contract[2])) = 1

====
